---------------------------- MODULE Spec2Model ----------------------------
(***************************************************************************)
(* Model of the unified Forgejo/Gitea MCP toolset (package tools/unified): *)
(* the documentation registry Manual, its lookup and formatting          *)
(* functions, the seven verb dispatchers with their resource handlers,     *)
(* and the gitea_manual documentation tool.                                *)
(*                                                                         *)
(* Text is modelled as a sequence of string fragments: a Go string built   *)
(* by fmt.Sprintf / += is the concatenation of the fragments, in order.    *)
(* Every %s / %v argument is one fragment (a slice printed with %v is      *)
(* "[", its elements separated by " ", "]"), every literal piece of a      *)
(* format string is one fragment.                                          *)
(***************************************************************************)
EXTENDS Integers, Sequences, FiniteSets, TLC

VARIABLES
  registry,      \* the package variable Manual (map[string]ManualEntry)
  pc,            \* "idle" | "upstream" | "done": position of the request in flight
  request,       \* [tool |-> name of the entry point, args |-> argument bag]
  invoked,       \* resource handlers invoked by the dispatcher for this request
  pending,       \* the handler blocked in its forgejo client call (pc = "upstream")
  upstreamCalls, \* number of forgejo client calls made for this request
  result,        \* what the entry point returned to its caller
  memo,          \* history: an earlier call of a schema.go function and its result
  flight         \* the dispatcher calls running at the same time, one per goroutine

vars == <<registry, pc, request, invoked, pending, upstreamCalls, result, memo, flight>>

-----------------------------------------------------------------------------
(* Bounds of the model.                                                    *)

\* An argument bag differs from the canonical valid call of its
\* (verb, kind) pair in at most MaxDefects keys.
MaxDefects == 2

\* Go leaves the iteration order of a map unspecified.  The model iterates
\* the registry in the order of the map literal rotated by 0..MaxIterShift
\* positions, forwards or backwards.
MaxIterShift == 1

\* The number of dispatcher calls that run at the same time.
MaxInFlight == 2

-----------------------------------------------------------------------------
(* Small helpers on sequences.                                             *)

Range(s) == { s[i] : i \in DOMAIN s }

RECURSIVE SeqOfSet(_)
SeqOfSet(S) == IF S = {} THEN <<>>
               ELSE LET x == CHOOSE y \in S : TRUE IN <<x>> \o SeqOfSet(S \ {x})

RECURSIVE Flatten(_)
Flatten(ss) == IF ss = <<>> THEN <<>> ELSE Head(ss) \o Flatten(Tail(ss))

\* Index of the first occurrence of x in s, 0 when x does not occur.
IndexOf(s, x) == IF x \in Range(s) THEN CHOOSE i \in DOMAIN s : s[i] = x /\ \A j \in 1..(i-1) : s[j] # x
                 ELSE 0

\* s contains the fragments of t as a contiguous run.
ContainsRun(s, t) == \E i \in 0..(Len(s) - Len(t)) : \A j \in DOMAIN t : s[i + j] = t[j]

-----------------------------------------------------------------------------
(* schema.go: types and constants.                                         *)

ActionCreate == "create"
ActionGet    == "get"
ActionList   == "list"
ActionEdit   == "edit"
ActionDelete == "delete"
ActionLink   == "link"
ActionUnlink == "unlink"

Action == {ActionCreate, ActionGet, ActionList, ActionEdit, ActionDelete, ActionLink, ActionUnlink}

Resource == {"issue", "issue_comment", "issue_attachment", "label", "milestone", "release",
             "release_attachment", "wiki_page", "pull_request", "repository", "action_task"}

LinkIssueLabel      == "issue_label"
LinkIssueDependency == "issue_dependency"
LinkIssueBlocking   == "issue_blocking"

LinkType == {LinkIssueLabel, LinkIssueDependency, LinkIssueBlocking}

ParamSpec(name, type, required, description, enum) ==
  [Name |-> name, Type |-> type, Required |-> required, Description |-> description, Enum |-> enum]

\* The zero value of ManualEntry, returned by a failed map lookup.
ZeroManualEntry ==
  [Action |-> "", Resource |-> "", LinkType |-> "", Description |-> "", Params |-> <<>>, Example |-> ""]

commonRepoParams ==
  << ParamSpec("owner", "string", TRUE, "Repository owner (username or organization)", <<>>),
     ParamSpec("repo", "string", TRUE, "Repository name", <<>>) >>

\* The composite literal of Manual, one record per "key": {...} element, in
\* source order.
ManualLiteral ==
  <<
    [ Key |-> "create:issue",
      Action |-> "create", Resource |-> "issue", LinkType |-> "",
      Description |-> "Create a new issue in a repository.",
      Params |-> commonRepoParams \o <<
        ParamSpec("title", "string", TRUE, "Issue title", <<>>),
        ParamSpec("body", "string", TRUE, "Issue body (markdown)", <<>>),
        ParamSpec("assignees", "array", FALSE, "Usernames to assign", <<>>),
        ParamSpec("milestone", "integer", FALSE, "Milestone ID", <<>>),
        ParamSpec("labels", "array", FALSE, "Label IDs to attach", <<>>),
        ParamSpec("due_date", "string", FALSE, "Due date (RFC3339 format)", <<>>) >>,
      Example |-> "create_gitea(resource=\"issue\", owner=\"org\", repo=\"project\", title=\"Bug report\", body=\"Description...\")" ],
    [ Key |-> "create:issue_comment",
      Action |-> "create", Resource |-> "issue_comment", LinkType |-> "",
      Description |-> "Add a comment to an issue.",
      Params |-> commonRepoParams \o <<
        ParamSpec("index", "integer", TRUE, "Issue number", <<>>),
        ParamSpec("body", "string", TRUE, "Comment body (markdown)", <<>>) >>,
      Example |-> "create_gitea(resource=\"issue_comment\", owner=\"org\", repo=\"project\", index=42, body=\"Thanks!\")" ],
    [ Key |-> "create:label",
      Action |-> "create", Resource |-> "label", LinkType |-> "",
      Description |-> "Create a new label in a repository.",
      Params |-> commonRepoParams \o <<
        ParamSpec("name", "string", TRUE, "Label name", <<>>),
        ParamSpec("color", "string", TRUE, "Hex color (without #, e.g., 'ff0000')", <<>>),
        ParamSpec("description", "string", FALSE, "Label description", <<>>) >>,
      Example |-> "create_gitea(resource=\"label\", owner=\"org\", repo=\"project\", name=\"bug\", color=\"ff0000\")" ],
    [ Key |-> "create:milestone",
      Action |-> "create", Resource |-> "milestone", LinkType |-> "",
      Description |-> "Create a new milestone in a repository.",
      Params |-> commonRepoParams \o <<
        ParamSpec("title", "string", TRUE, "Milestone title", <<>>),
        ParamSpec("description", "string", FALSE, "Milestone description", <<>>),
        ParamSpec("due_date", "string", FALSE, "Due date (RFC3339 format)", <<>>),
        ParamSpec("state", "string", FALSE, "State: 'open' or 'closed'", <<"open", "closed">>) >>,
      Example |-> "create_gitea(resource=\"milestone\", owner=\"org\", repo=\"project\", title=\"v1.0\")" ],
    [ Key |-> "create:release",
      Action |-> "create", Resource |-> "release", LinkType |-> "",
      Description |-> "Create a new release in a repository.",
      Params |-> commonRepoParams \o <<
        ParamSpec("tag_name", "string", TRUE, "Git tag name", <<>>),
        ParamSpec("name", "string", TRUE, "Release title", <<>>),
        ParamSpec("body", "string", FALSE, "Release notes (markdown)", <<>>),
        ParamSpec("target_commitish", "string", FALSE, "Target branch or commit SHA", <<>>),
        ParamSpec("draft", "boolean", FALSE, "Is draft release", <<>>),
        ParamSpec("prerelease", "boolean", FALSE, "Is prerelease", <<>>) >>,
      Example |-> "create_gitea(resource=\"release\", owner=\"org\", repo=\"project\", tag_name=\"v1.0.0\", name=\"Version 1.0\")" ],
    [ Key |-> "create:wiki_page",
      Action |-> "create", Resource |-> "wiki_page", LinkType |-> "",
      Description |-> "Create a new wiki page in a repository.",
      Params |-> commonRepoParams \o <<
        ParamSpec("title", "string", TRUE, "Page title", <<>>),
        ParamSpec("content", "string", TRUE, "Page content (markdown)", <<>>),
        ParamSpec("message", "string", FALSE, "Commit message", <<>>) >>,
      Example |-> "create_gitea(resource=\"wiki_page\", owner=\"org\", repo=\"project\", title=\"Home\", content=\"# Welcome\")" ],
    [ Key |-> "create:pull_request",
      Action |-> "create", Resource |-> "pull_request", LinkType |-> "",
      Description |-> "Create a new pull request.",
      Params |-> commonRepoParams \o <<
        ParamSpec("title", "string", TRUE, "PR title", <<>>),
        ParamSpec("body", "string", FALSE, "PR description (markdown)", <<>>),
        ParamSpec("head", "string", TRUE, "Source branch (or 'user:branch' for forks)", <<>>),
        ParamSpec("base", "string", TRUE, "Target branch", <<>>),
        ParamSpec("assignees", "array", FALSE, "Usernames to assign", <<>>),
        ParamSpec("milestone", "integer", FALSE, "Milestone ID", <<>>),
        ParamSpec("labels", "array", FALSE, "Label IDs", <<>>) >>,
      Example |-> "create_gitea(resource=\"pull_request\", owner=\"org\", repo=\"project\", title=\"Feature X\", head=\"feature-x\", base=\"main\")" ],
    [ Key |-> "get:issue",
      Action |-> "get", Resource |-> "issue", LinkType |-> "",
      Description |-> "Get details of a specific issue.",
      Params |-> commonRepoParams \o <<
        ParamSpec("index", "integer", TRUE, "Issue number", <<>>) >>,
      Example |-> "get_gitea(resource=\"issue\", owner=\"org\", repo=\"project\", index=42)" ],
    [ Key |-> "get:wiki_page",
      Action |-> "get", Resource |-> "wiki_page", LinkType |-> "",
      Description |-> "Get content of a specific wiki page.",
      Params |-> commonRepoParams \o <<
        ParamSpec("page_name", "string", TRUE, "Wiki page name", <<>>) >>,
      Example |-> "get_gitea(resource=\"wiki_page\", owner=\"org\", repo=\"project\", page_name=\"Home\")" ],
    [ Key |-> "get:pull_request",
      Action |-> "get", Resource |-> "pull_request", LinkType |-> "",
      Description |-> "Get details of a specific pull request.",
      Params |-> commonRepoParams \o <<
        ParamSpec("index", "integer", TRUE, "PR number", <<>>) >>,
      Example |-> "get_gitea(resource=\"pull_request\", owner=\"org\", repo=\"project\", index=42)" ],
    [ Key |-> "get:repository",
      Action |-> "get", Resource |-> "repository", LinkType |-> "",
      Description |-> "Get details of a specific repository.",
      Params |-> commonRepoParams,
      Example |-> "get_gitea(resource=\"repository\", owner=\"org\", repo=\"project\")" ],
    [ Key |-> "list:issue",
      Action |-> "list", Resource |-> "issue", LinkType |-> "",
      Description |-> "List issues in a repository with optional filtering.",
      Params |-> commonRepoParams \o <<
        ParamSpec("state", "string", FALSE, "Filter by state", <<"open", "closed", "all">>),
        ParamSpec("labels", "string", FALSE, "Comma-separated label names", <<>>),
        ParamSpec("milestones", "string", FALSE, "Comma-separated milestone names/IDs", <<>>),
        ParamSpec("assignees", "string", FALSE, "Comma-separated usernames", <<>>),
        ParamSpec("q", "string", FALSE, "Search query", <<>>),
        ParamSpec("sort", "string", FALSE, "Sort field", <<"created", "updated", "comments">>),
        ParamSpec("order", "string", FALSE, "Sort order", <<"asc", "desc">>),
        ParamSpec("page", "integer", FALSE, "Page number", <<>>),
        ParamSpec("limit", "integer", FALSE, "Results per page (max 50)", <<>>),
        ParamSpec("since", "string", FALSE, "Only issues updated after (RFC3339)", <<>>),
        ParamSpec("before", "string", FALSE, "Only issues updated before (RFC3339)", <<>>) >>,
      Example |-> "list_gitea(resource=\"issue\", owner=\"org\", repo=\"project\", state=\"open\", labels=\"bug\")" ],
    [ Key |-> "list:issue_comment",
      Action |-> "list", Resource |-> "issue_comment", LinkType |-> "",
      Description |-> "List comments on an issue.",
      Params |-> commonRepoParams \o <<
        ParamSpec("index", "integer", TRUE, "Issue number", <<>>),
        ParamSpec("since", "string", FALSE, "Only comments after (RFC3339)", <<>>),
        ParamSpec("before", "string", FALSE, "Only comments before (RFC3339)", <<>>) >>,
      Example |-> "list_gitea(resource=\"issue_comment\", owner=\"org\", repo=\"project\", index=42)" ],
    [ Key |-> "list:issue_attachment",
      Action |-> "list", Resource |-> "issue_attachment", LinkType |-> "",
      Description |-> "List attachments on an issue.",
      Params |-> commonRepoParams \o <<
        ParamSpec("index", "integer", TRUE, "Issue number", <<>>) >>,
      Example |-> "list_gitea(resource=\"issue_attachment\", owner=\"org\", repo=\"project\", index=42)" ],
    [ Key |-> "list:label",
      Action |-> "list", Resource |-> "label", LinkType |-> "",
      Description |-> "List all labels in a repository.",
      Params |-> commonRepoParams,
      Example |-> "list_gitea(resource=\"label\", owner=\"org\", repo=\"project\")" ],
    [ Key |-> "list:milestone",
      Action |-> "list", Resource |-> "milestone", LinkType |-> "",
      Description |-> "List milestones in a repository.",
      Params |-> commonRepoParams \o <<
        ParamSpec("state", "string", FALSE, "Filter by state", <<"open", "closed", "all">>),
        ParamSpec("name", "string", FALSE, "Filter by name", <<>>),
        ParamSpec("page", "integer", FALSE, "Page number", <<>>),
        ParamSpec("limit", "integer", FALSE, "Results per page", <<>>) >>,
      Example |-> "list_gitea(resource=\"milestone\", owner=\"org\", repo=\"project\", state=\"open\")" ],
    [ Key |-> "list:release",
      Action |-> "list", Resource |-> "release", LinkType |-> "",
      Description |-> "List releases in a repository.",
      Params |-> commonRepoParams \o <<
        ParamSpec("page", "integer", FALSE, "Page number", <<>>),
        ParamSpec("limit", "integer", FALSE, "Results per page", <<>>) >>,
      Example |-> "list_gitea(resource=\"release\", owner=\"org\", repo=\"project\")" ],
    [ Key |-> "list:release_attachment",
      Action |-> "list", Resource |-> "release_attachment", LinkType |-> "",
      Description |-> "List attachments on a release.",
      Params |-> commonRepoParams \o <<
        ParamSpec("id", "integer", TRUE, "Release ID", <<>>) >>,
      Example |-> "list_gitea(resource=\"release_attachment\", owner=\"org\", repo=\"project\", id=1)" ],
    [ Key |-> "list:wiki_page",
      Action |-> "list", Resource |-> "wiki_page", LinkType |-> "",
      Description |-> "List all wiki pages in a repository.",
      Params |-> commonRepoParams,
      Example |-> "list_gitea(resource=\"wiki_page\", owner=\"org\", repo=\"project\")" ],
    [ Key |-> "list:pull_request",
      Action |-> "list", Resource |-> "pull_request", LinkType |-> "",
      Description |-> "List pull requests in a repository.",
      Params |-> commonRepoParams \o <<
        ParamSpec("state", "string", FALSE, "Filter by state", <<"open", "closed", "all">>),
        ParamSpec("sort", "string", FALSE, "Sort field", <<"oldest", "recentupdate", "leastupdate", "mostcomment", "leastcomment", "priority">>),
        ParamSpec("milestone", "integer", FALSE, "Milestone ID", <<>>),
        ParamSpec("labels", "array", FALSE, "Label IDs", <<>>),
        ParamSpec("page", "integer", FALSE, "Page number", <<>>),
        ParamSpec("limit", "integer", FALSE, "Results per page", <<>>) >>,
      Example |-> "list_gitea(resource=\"pull_request\", owner=\"org\", repo=\"project\", state=\"open\")" ],
    [ Key |-> "list:repository",
      Action |-> "list", Resource |-> "repository", LinkType |-> "",
      Description |-> "List repositories. Use 'scope' to choose: 'my' (authenticated user), 'org' (organization), or 'search' (search all).",
      Params |-> <<
        ParamSpec("scope", "string", TRUE, "Listing scope", <<"my", "org", "search">>),
        ParamSpec("org", "string", FALSE, "Organization name (required for scope='org')", <<>>),
        ParamSpec("q", "string", FALSE, "Search query (for scope='search')", <<>>),
        ParamSpec("topic", "boolean", FALSE, "Search in topics (for scope='search')", <<>>),
        ParamSpec("include_desc", "boolean", FALSE, "Search in description (for scope='search')", <<>>),
        ParamSpec("template", "boolean", FALSE, "Only templates (for scope='search')", <<>>),
        ParamSpec("archived", "boolean", FALSE, "Only archived (for scope='search')", <<>>),
        ParamSpec("private", "boolean", FALSE, "Only private (for scope='search')", <<>>),
        ParamSpec("page", "integer", FALSE, "Page number", <<>>),
        ParamSpec("limit", "integer", FALSE, "Results per page", <<>>) >>,
      Example |-> "list_gitea(resource=\"repository\", scope=\"my\")" ],
    [ Key |-> "list:action_task",
      Action |-> "list", Resource |-> "action_task", LinkType |-> "",
      Description |-> "List Forgejo Actions tasks (CI/CD runs).",
      Params |-> commonRepoParams \o <<
        ParamSpec("page", "integer", FALSE, "Page number", <<>>),
        ParamSpec("limit", "integer", FALSE, "Results per page", <<>>) >>,
      Example |-> "list_gitea(resource=\"action_task\", owner=\"org\", repo=\"project\")" ],
    [ Key |-> "list:issue_dependency",
      Action |-> "list", Resource |-> "issue_dependency", LinkType |-> "",
      Description |-> "List issues that block this issue (dependencies).",
      Params |-> commonRepoParams \o <<
        ParamSpec("index", "integer", TRUE, "Issue number", <<>>) >>,
      Example |-> "list_gitea(resource=\"issue_dependency\", owner=\"org\", repo=\"project\", index=42)" ],
    [ Key |-> "list:issue_blocking",
      Action |-> "list", Resource |-> "issue_blocking", LinkType |-> "",
      Description |-> "List issues that are blocked by this issue.",
      Params |-> commonRepoParams \o <<
        ParamSpec("index", "integer", TRUE, "Issue number", <<>>) >>,
      Example |-> "list_gitea(resource=\"issue_blocking\", owner=\"org\", repo=\"project\", index=42)" ],
    [ Key |-> "edit:issue",
      Action |-> "edit", Resource |-> "issue", LinkType |-> "",
      Description |-> "Edit an existing issue.",
      Params |-> commonRepoParams \o <<
        ParamSpec("index", "integer", TRUE, "Issue number", <<>>),
        ParamSpec("title", "string", FALSE, "New title", <<>>),
        ParamSpec("body", "string", FALSE, "New body", <<>>),
        ParamSpec("state", "string", FALSE, "New state", <<"open", "closed">>),
        ParamSpec("assignees", "array", FALSE, "New assignees", <<>>),
        ParamSpec("milestone", "integer", FALSE, "New milestone ID", <<>>),
        ParamSpec("due_date", "string", FALSE, "New due date (RFC3339)", <<>>) >>,
      Example |-> "edit_gitea(resource=\"issue\", owner=\"org\", repo=\"project\", index=42, state=\"closed\")" ],
    [ Key |-> "edit:issue_comment",
      Action |-> "edit", Resource |-> "issue_comment", LinkType |-> "",
      Description |-> "Edit an issue comment.",
      Params |-> commonRepoParams \o <<
        ParamSpec("id", "integer", TRUE, "Comment ID", <<>>),
        ParamSpec("body", "string", TRUE, "New comment body", <<>>) >>,
      Example |-> "edit_gitea(resource=\"issue_comment\", owner=\"org\", repo=\"project\", id=123, body=\"Updated comment\")" ],
    [ Key |-> "edit:issue_attachment",
      Action |-> "edit", Resource |-> "issue_attachment", LinkType |-> "",
      Description |-> "Edit an issue attachment's name.",
      Params |-> commonRepoParams \o <<
        ParamSpec("index", "integer", TRUE, "Issue number", <<>>),
        ParamSpec("attachment_id", "integer", TRUE, "Attachment ID", <<>>),
        ParamSpec("name", "string", TRUE, "New filename", <<>>) >>,
      Example |-> "edit_gitea(resource=\"issue_attachment\", owner=\"org\", repo=\"project\", index=42, attachment_id=1, name=\"new_name.png\")" ],
    [ Key |-> "edit:label",
      Action |-> "edit", Resource |-> "label", LinkType |-> "",
      Description |-> "Edit a label.",
      Params |-> commonRepoParams \o <<
        ParamSpec("id", "integer", TRUE, "Label ID", <<>>),
        ParamSpec("name", "string", FALSE, "New name", <<>>),
        ParamSpec("color", "string", FALSE, "New color (hex without #)", <<>>),
        ParamSpec("description", "string", FALSE, "New description", <<>>) >>,
      Example |-> "edit_gitea(resource=\"label\", owner=\"org\", repo=\"project\", id=1, color=\"00ff00\")" ],
    [ Key |-> "edit:milestone",
      Action |-> "edit", Resource |-> "milestone", LinkType |-> "",
      Description |-> "Edit a milestone.",
      Params |-> commonRepoParams \o <<
        ParamSpec("id", "integer", TRUE, "Milestone ID", <<>>),
        ParamSpec("title", "string", FALSE, "New title", <<>>),
        ParamSpec("description", "string", FALSE, "New description", <<>>),
        ParamSpec("due_date", "string", FALSE, "New due date (RFC3339)", <<>>),
        ParamSpec("state", "string", FALSE, "New state", <<"open", "closed">>) >>,
      Example |-> "edit_gitea(resource=\"milestone\", owner=\"org\", repo=\"project\", id=1, state=\"closed\")" ],
    [ Key |-> "edit:release",
      Action |-> "edit", Resource |-> "release", LinkType |-> "",
      Description |-> "Edit a release.",
      Params |-> commonRepoParams \o <<
        ParamSpec("id", "integer", TRUE, "Release ID", <<>>),
        ParamSpec("tag_name", "string", FALSE, "New tag name", <<>>),
        ParamSpec("name", "string", FALSE, "New title", <<>>),
        ParamSpec("body", "string", FALSE, "New release notes", <<>>),
        ParamSpec("target_commitish", "string", FALSE, "New target", <<>>),
        ParamSpec("draft", "boolean", FALSE, "Is draft", <<>>),
        ParamSpec("prerelease", "boolean", FALSE, "Is prerelease", <<>>) >>,
      Example |-> "edit_gitea(resource=\"release\", owner=\"org\", repo=\"project\", id=1, prerelease=false)" ],
    [ Key |-> "edit:release_attachment",
      Action |-> "edit", Resource |-> "release_attachment", LinkType |-> "",
      Description |-> "Edit a release attachment's name.",
      Params |-> commonRepoParams \o <<
        ParamSpec("id", "integer", TRUE, "Release ID", <<>>),
        ParamSpec("attachment_id", "integer", TRUE, "Attachment ID", <<>>),
        ParamSpec("name", "string", TRUE, "New filename", <<>>) >>,
      Example |-> "edit_gitea(resource=\"release_attachment\", owner=\"org\", repo=\"project\", id=1, attachment_id=2, name=\"app-v1.0.zip\")" ],
    [ Key |-> "edit:wiki_page",
      Action |-> "edit", Resource |-> "wiki_page", LinkType |-> "",
      Description |-> "Edit a wiki page.",
      Params |-> commonRepoParams \o <<
        ParamSpec("page_name", "string", TRUE, "Current page name", <<>>),
        ParamSpec("title", "string", FALSE, "New title", <<>>),
        ParamSpec("content", "string", TRUE, "New content", <<>>),
        ParamSpec("message", "string", FALSE, "Commit message", <<>>) >>,
      Example |-> "edit_gitea(resource=\"wiki_page\", owner=\"org\", repo=\"project\", page_name=\"Home\", content=\"# Updated\")" ],
    [ Key |-> "delete:issue_comment",
      Action |-> "delete", Resource |-> "issue_comment", LinkType |-> "",
      Description |-> "Delete an issue comment.",
      Params |-> commonRepoParams \o <<
        ParamSpec("id", "integer", TRUE, "Comment ID", <<>>) >>,
      Example |-> "delete_gitea(resource=\"issue_comment\", owner=\"org\", repo=\"project\", id=123)" ],
    [ Key |-> "delete:issue_attachment",
      Action |-> "delete", Resource |-> "issue_attachment", LinkType |-> "",
      Description |-> "Delete an issue attachment.",
      Params |-> commonRepoParams \o <<
        ParamSpec("index", "integer", TRUE, "Issue number", <<>>),
        ParamSpec("attachment_id", "integer", TRUE, "Attachment ID", <<>>) >>,
      Example |-> "delete_gitea(resource=\"issue_attachment\", owner=\"org\", repo=\"project\", index=42, attachment_id=1)" ],
    [ Key |-> "delete:label",
      Action |-> "delete", Resource |-> "label", LinkType |-> "",
      Description |-> "Delete a label from a repository.",
      Params |-> commonRepoParams \o <<
        ParamSpec("id", "integer", TRUE, "Label ID", <<>>) >>,
      Example |-> "delete_gitea(resource=\"label\", owner=\"org\", repo=\"project\", id=1)" ],
    [ Key |-> "delete:milestone",
      Action |-> "delete", Resource |-> "milestone", LinkType |-> "",
      Description |-> "Delete a milestone.",
      Params |-> commonRepoParams \o <<
        ParamSpec("id", "integer", TRUE, "Milestone ID", <<>>) >>,
      Example |-> "delete_gitea(resource=\"milestone\", owner=\"org\", repo=\"project\", id=1)" ],
    [ Key |-> "delete:release",
      Action |-> "delete", Resource |-> "release", LinkType |-> "",
      Description |-> "Delete a release.",
      Params |-> commonRepoParams \o <<
        ParamSpec("id", "integer", TRUE, "Release ID", <<>>) >>,
      Example |-> "delete_gitea(resource=\"release\", owner=\"org\", repo=\"project\", id=1)" ],
    [ Key |-> "delete:release_attachment",
      Action |-> "delete", Resource |-> "release_attachment", LinkType |-> "",
      Description |-> "Delete a release attachment.",
      Params |-> commonRepoParams \o <<
        ParamSpec("id", "integer", TRUE, "Release ID", <<>>),
        ParamSpec("attachment_id", "integer", TRUE, "Attachment ID", <<>>) >>,
      Example |-> "delete_gitea(resource=\"release_attachment\", owner=\"org\", repo=\"project\", id=1, attachment_id=2)" ],
    [ Key |-> "delete:wiki_page",
      Action |-> "delete", Resource |-> "wiki_page", LinkType |-> "",
      Description |-> "Delete a wiki page.",
      Params |-> commonRepoParams \o <<
        ParamSpec("page_name", "string", TRUE, "Page name to delete", <<>>) >>,
      Example |-> "delete_gitea(resource=\"wiki_page\", owner=\"org\", repo=\"project\", page_name=\"OldPage\")" ],
    [ Key |-> "link:issue_label",
      Action |-> "link", Resource |-> "", LinkType |-> "issue_label",
      Description |-> "Add labels to an issue.",
      Params |-> commonRepoParams \o <<
        ParamSpec("index", "integer", TRUE, "Issue number", <<>>),
        ParamSpec("labels", "array", TRUE, "Label IDs to add", <<>>) >>,
      Example |-> "link_gitea(type=\"issue_label\", owner=\"org\", repo=\"project\", index=42, labels=[1, 2])" ],
    [ Key |-> "link:issue_dependency",
      Action |-> "link", Resource |-> "", LinkType |-> "issue_dependency",
      Description |-> "Add a dependency: issue cannot be closed until dependency_index is closed.",
      Params |-> commonRepoParams \o <<
        ParamSpec("index", "integer", TRUE, "Dependent issue number", <<>>),
        ParamSpec("dependency_index", "integer", TRUE, "Issue that blocks this one", <<>>) >>,
      Example |-> "link_gitea(type=\"issue_dependency\", owner=\"org\", repo=\"project\", index=42, dependency_index=10)" ],
    [ Key |-> "link:issue_blocking",
      Action |-> "link", Resource |-> "", LinkType |-> "issue_blocking",
      Description |-> "Add a blocking relationship: blocked_index cannot be closed until index is closed.",
      Params |-> commonRepoParams \o <<
        ParamSpec("index", "integer", TRUE, "Blocking issue number", <<>>),
        ParamSpec("blocked_index", "integer", TRUE, "Issue that will be blocked", <<>>) >>,
      Example |-> "link_gitea(type=\"issue_blocking\", owner=\"org\", repo=\"project\", index=42, blocked_index=50)" ],
    [ Key |-> "unlink:issue_label",
      Action |-> "unlink", Resource |-> "", LinkType |-> "issue_label",
      Description |-> "Remove a label from an issue.",
      Params |-> commonRepoParams \o <<
        ParamSpec("index", "integer", TRUE, "Issue number", <<>>),
        ParamSpec("label_id", "integer", TRUE, "Label ID to remove", <<>>) >>,
      Example |-> "unlink_gitea(type=\"issue_label\", owner=\"org\", repo=\"project\", index=42, label_id=1)" ],
    [ Key |-> "unlink:issue_dependency",
      Action |-> "unlink", Resource |-> "", LinkType |-> "issue_dependency",
      Description |-> "Remove a dependency relationship.",
      Params |-> commonRepoParams \o <<
        ParamSpec("index", "integer", TRUE, "Dependent issue number", <<>>),
        ParamSpec("dependency_index", "integer", TRUE, "Dependency to remove", <<>>) >>,
      Example |-> "unlink_gitea(type=\"issue_dependency\", owner=\"org\", repo=\"project\", index=42, dependency_index=10)" ],
    [ Key |-> "unlink:issue_blocking",
      Action |-> "unlink", Resource |-> "", LinkType |-> "issue_blocking",
      Description |-> "Remove a blocking relationship.",
      Params |-> commonRepoParams \o <<
        ParamSpec("index", "integer", TRUE, "Blocking issue number", <<>>),
        ParamSpec("blocked_index", "integer", TRUE, "Issue to unblock", <<>>) >>,
      Example |-> "unlink_gitea(type=\"issue_blocking\", owner=\"org\", repo=\"project\", index=42, blocked_index=50)" ]
  >>

ManualEntryOf(lit) ==
  [Action |-> lit.Action, Resource |-> lit.Resource, LinkType |-> lit.LinkType,
   Description |-> lit.Description, Params |-> lit.Params, Example |-> lit.Example]

\* The registry with body of create:issue not marked Required.
ManualBodyOptional ==
  [ k \in { ManualLiteral[i].Key : i \in DOMAIN ManualLiteral } |->
      LET e == ManualEntryOf(ManualLiteral[CHOOSE i \in DOMAIN ManualLiteral : ManualLiteral[i].Key = k])
      IN  IF k # "create:issue" THEN e
          ELSE [e EXCEPT !.Params = [ i \in DOMAIN e.Params |->
                  IF e.Params[i].Name = "body" THEN [e.Params[i] EXCEPT !.Required = FALSE]
                  ELSE e.Params[i] ]] ]

\* The registry with the entry of unlink:issue_blocking copied from
\* link:issue_blocking and its Action left as it was.
ManualUnlinkBlockingAsLink ==
  [ k \in { ManualLiteral[i].Key : i \in DOMAIN ManualLiteral } |->
      LET e == ManualEntryOf(ManualLiteral[CHOOSE i \in DOMAIN ManualLiteral : ManualLiteral[i].Key = k])
      IN  IF k = "unlink:issue_blocking" THEN [e EXCEPT !.Action = ActionLink] ELSE e ]

\* The registry without an entry for list:issue_blocking.
ManualWithoutListIssueBlocking ==
  [ k \in { ManualLiteral[i].Key : i \in DOMAIN ManualLiteral } \ {"list:issue_blocking"} |->
      ManualEntryOf(ManualLiteral[CHOOSE i \in DOMAIN ManualLiteral : ManualLiteral[i].Key = k]) ]

\* var Manual = map[string]ManualEntry{...}
Manual ==
  [ k \in { ManualLiteral[i].Key : i \in DOMAIN ManualLiteral } |->
      ManualEntryOf(ManualLiteral[CHOOSE i \in DOMAIN ManualLiteral : ManualLiteral[i].Key = k]) ]

(* Strings can be concatenated and compared but not sliced; a             *)
(* slice key[len(prefix):] is found by searching the strings below for the  *)
(* one that completes the prefix to the key.                                *)
KindNames == Resource \cup LinkType

OtherStrings == {"", "bogus", "Issue", "issue ", "label:x"}

Strings == KindNames \cup OtherStrings

\* fmt.Sprintf("%s:%s", action, resourceOrType)
ManualKey(action, resourceOrType) == action \o ":" \o resourceOrType

LookupManual(action, resourceOrType) ==
  LET key == ManualKey(action, resourceOrType) IN
  IF key \in DOMAIN registry
    THEN [entry |-> registry[key], ok |-> TRUE]
    ELSE [entry |-> ZeroManualEntry, ok |-> FALSE]

\* len(key) > len(prefix) && key[:len(prefix)] == prefix
HasProperPrefix(key, prefix) == \E s \in Strings \ {""} : key = prefix \o s

\* key[len(prefix):]
TrimPrefix(key, prefix) == CHOOSE s \in Strings : key = prefix \o s

\* The orders in which for key := range Manual may visit the keys.
LiteralKeys == [ i \in DOMAIN ManualLiteral |-> ManualLiteral[i].Key ]

Rotate(s, n) == [ i \in DOMAIN s |-> s[((i - 1 + n) % Len(s)) + 1] ]

Reverse(s) == [ i \in DOMAIN s |-> s[Len(s) + 1 - i] ]

\* The keys of the registry: those of the literal, then any key added since.
RegistryKeys == LiteralKeys \o SeqOfSet(DOMAIN registry \ Range(LiteralKeys))

MapIterOrders ==
  { Rotate(RegistryKeys, n) : n \in 0..MaxIterShift } \cup
  { Reverse(Rotate(RegistryKeys, n)) : n \in 0..MaxIterShift }

RECURSIVE CollectResources(_, _)
CollectResources(keys, prefix) ==
  IF keys = <<>> THEN <<>>
  ELSE LET key == Head(keys)
           rest == CollectResources(Tail(keys), prefix)
       IN  IF key \in DOMAIN registry /\ HasProperPrefix(key, prefix)
             THEN <<TrimPrefix(key, prefix)>> \o rest
             ELSE rest

\* ListResourcesForAction appending the Resource field of the entry in place
\* of the rest of the key.
RECURSIVE CollectResourceFields(_, _)
CollectResourceFields(keys, prefix) ==
  IF keys = <<>> THEN <<>>
  ELSE LET key == Head(keys)
           rest == CollectResourceFields(Tail(keys), prefix)
       IN  IF key \in DOMAIN registry /\ HasProperPrefix(key, prefix)
             THEN <<registry[key].Resource>> \o rest
             ELSE rest

ListResourcesForActionByField(action, ord) == CollectResourceFields(ord, action \o ":")

\* ListResourcesForAction, with the map visited in the order ord.
ListResourcesForAction(action, ord) == CollectResources(ord, action \o ":")

\* ListLinkTypes without issue_blocking.
ListLinkTypesWithoutBlocking == <<LinkIssueLabel, LinkIssueDependency>>

ListLinkTypes == <<LinkIssueLabel, LinkIssueDependency, LinkIssueBlocking>>

-----------------------------------------------------------------------------
(* schema.go: rendering.                                                   *)

RECURSIVE Join(_, _)
Join(elems, sep) ==
  IF Len(elems) <= 1 THEN elems ELSE <<Head(elems), sep>> \o Join(Tail(elems), sep)

\* fmt's %v of a []string.
SprintSlice(elems) == <<"[">> \o Join(elems, " ") \o <<"]">>

\* ParamRow without the values of Enum.
ParamRowWithoutEnum(p) ==
  LET req == IF p.Required THEN "yes" ELSE "no"
  IN  <<"| ", p.Name, " | ", p.Type, " | ", req, " | ", p.Description, " |\n">>

ParamRow(p) ==
  LET req  == IF p.Required THEN "yes" ELSE "no"
      desc == IF Len(p.Enum) > 0
                THEN <<p.Description, " (values: ">> \o SprintSlice(p.Enum) \o <<")">>
                ELSE <<p.Description>>
  IN  <<"| ", p.Name, " | ", p.Type, " | ", req, " | ">> \o desc \o <<" |\n">>

\* A string of the module cannot hold a backquote: the Markdown code fence
\* (three backquotes) around the example is written as three single quotes.
FormatManualEntry(entry) ==
  LET header == IF entry.Resource # ""
                  THEN <<"## ", entry.Action, " ", entry.Resource, "\n\n">>
                  ELSE <<"## ", entry.Action, " ", entry.LinkType, "\n\n">>
  IN  header
      \o <<entry.Description, "\n\n">>
      \o <<"### Parameters\n\n",
           "| Name | Type | Required | Description |\n",
           "|------|------|----------|-------------|\n">>
      \o Flatten([ i \in DOMAIN entry.Params |-> ParamRow(entry.Params[i]) ])
      \o <<"\n### Example\n\n'''\n", entry.Example, "\n'''\n">>

\* FormatValidationError with the manual entry before the reason.
FormatValidationErrorEntryFirst(action, resourceOrType, message) ==
  LET l == LookupManual(action, resourceOrType) IN
  IF ~l.ok
    THEN <<"Error: ", message, "\n\nNo documentation found for ", action, ":", resourceOrType>>
    ELSE <<"Here's how to use this operation:\n\n">> \o FormatManualEntry(l.entry)
         \o <<"\n\n", "Error: ", message>>

\* FormatValidationError ignoring the ok of LookupManual: it renders the
\* entry it got, the zero ManualEntry when there is none.
FormatValidationErrorIgnoresOk(action, resourceOrType, message) ==
  LET l == LookupManual(action, resourceOrType) IN
  <<"Error: ", message, "\n\n", "Here's how to use this operation:\n\n">>
  \o FormatManualEntry(l.entry)

FormatValidationError(action, resourceOrType, message) ==
  LET l == LookupManual(action, resourceOrType) IN
  IF ~l.ok
    THEN <<"Error: ", message, "\n\nNo documentation found for ", action, ":", resourceOrType>>
    ELSE <<"Error: ", message, "\n\n", "Here's how to use this operation:\n\n">>
         \o FormatManualEntry(l.entry)

-----------------------------------------------------------------------------
(* Argument bags: map[string]any as decoded from JSON.  A bag is a function *)
(* from the keys that are present to values tagged with their dynamic type. *)

Str(s)  == [t |-> "string", s |-> s,  n |-> 0, a |-> <<>>, b |-> FALSE]
Num(n)  == [t |-> "number", s |-> "", n |-> n, a |-> <<>>, b |-> FALSE]
Arr(a)  == [t |-> "array",  s |-> "", n |-> 0, a |-> a,    b |-> FALSE]
Bool(b) == [t |-> "bool",   s |-> "", n |-> 0, a |-> <<>>, b |-> b]

\* v, ok := args[k].(string)
AsString(args, k) ==
  IF k \in DOMAIN args /\ args[k].t = "string"
    THEN [v |-> args[k].s, ok |-> TRUE] ELSE [v |-> "", ok |-> FALSE]

\* v, ok := args[k].(float64)
AsFloat64(args, k) ==
  IF k \in DOMAIN args /\ args[k].t = "number"
    THEN [v |-> args[k].n, ok |-> TRUE] ELSE [v |-> 0, ok |-> FALSE]

\* v, ok := args[k].([]any)
AsSlice(args, k) ==
  IF k \in DOMAIN args /\ args[k].t = "array"
    THEN [v |-> args[k].a, ok |-> TRUE] ELSE [v |-> <<>>, ok |-> FALSE]

\* time.Parse(time.RFC3339, s) succeeds on these strings of the model and
\* fails on every other one.
GoodTime == "2025-01-02T03:04:05Z"
BadTime  == "tomorrow"
ParsesRFC3339(s) == s \in {GoodTime}
TimeParseError(s) == "parsing time \"" \o s \o "\" as RFC3339"

-----------------------------------------------------------------------------
(* What a dispatcher has done when it returns or blocks in a client call.  *)
(*   kind    "error": it returned msg as the error;                        *)
(*           "call":  it is calling the forgejo client method call;        *)
(*           "succeeded", "failed": that call has returned                 *)
(*   class   the branch that produced an error                             *)
(*   impl, handler   the resource handler the dispatcher invoked ("" when   *)
(*           it invoked none); sub: the helper that handler delegated to   *)

Outcome(kind, class, impl, handler, msg, call, failPrefix) ==
  [kind |-> kind, class |-> class, impl |-> impl, handler |-> handler, sub |-> "",
   msg |-> msg, call |-> call, failPrefix |-> failPrefix]

\* return nil, nil, fmt.Errorf(...) in a Handler closure, before the switch
DispatchError(class, msg) == Outcome("error", class, "", "", msg, "", "")

\* return nil, nil, fmt.Errorf(FormatValidationError(...)) in a handler
Rejected(impl, handler, msg) == Outcome("error", "HandlerValidation", impl, handler, msg, "", "")

\* return nil, nil, fmt.Errorf("invalid ... format ...: %w", err) in a handler
Malformed(impl, handler, prefix, value) ==
  Outcome("error", "HandlerValidation", impl, handler, <<prefix, TimeParseError(value)>>, "", "")

\* x, err := impl.Client.<call>(...); on err: fmt.Errorf("<failPrefix>%w", err)
ClientCall(impl, handler, call, failPrefix) == Outcome("call", "", impl, handler, <<>>, call, failPrefix)

\* extractOwnerRepo testing repo before owner.
extractOwnerRepoRepoFirst(args) ==
  LET owner == AsString(args, "owner").v
      repo  == AsString(args, "repo").v
  IN  IF repo = "" THEN [owner |-> "", repo |-> "", err |-> "repo is required"]
      ELSE IF owner = "" THEN [owner |-> "", repo |-> "", err |-> "owner is required"]
      ELSE [owner |-> owner, repo |-> repo, err |-> ""]

extractOwnerRepo(args) ==
  LET owner == AsString(args, "owner").v
      repo  == AsString(args, "repo").v
  IN  IF owner = "" THEN [owner |-> "", repo |-> "", err |-> "owner is required"]
      ELSE IF repo = "" THEN [owner |-> "", repo |-> "", err |-> "repo is required"]
      ELSE [owner |-> owner, repo |-> repo, err |-> ""]

-----------------------------------------------------------------------------
(* The resource handlers.  Each runs its checks in source order and either *)
(* returns the first failure or reaches its forgejo client call.  Optional *)
(* parameters that are only copied into the client options are not read.   *)

\* createIssue without the check of body.
createIssueBodyUnchecked(args) ==
  LET o == extractOwnerRepo(args)
      title == AsString(args, "title")
      body == AsString(args, "body")
      due_date == AsString(args, "due_date")
  IN  IF o.err # ""
        THEN Rejected("CreateImpl", "createIssue", FormatValidationError("create", "issue", o.err))
      ELSE IF title.v = ""
        THEN Rejected("CreateImpl", "createIssue", FormatValidationError("create", "issue", "title is required"))
      ELSE IF due_date.ok /\ due_date.v # "" /\ ~ParsesRFC3339(due_date.v)
        THEN Malformed("CreateImpl", "createIssue", "invalid due_date format (expected RFC3339): ", due_date.v)
      ELSE ClientCall("CreateImpl", "createIssue", "CreateIssue", "failed to create issue: ")

\* CreateImpl.createIssue (create.go:107-154)
createIssue(args) ==
  LET o == extractOwnerRepo(args)
      title == AsString(args, "title")
      body == AsString(args, "body")
      due_date == AsString(args, "due_date")
  IN  IF o.err # ""
        THEN Rejected("CreateImpl", "createIssue", FormatValidationError("create", "issue", o.err))
      ELSE IF title.v = ""
        THEN Rejected("CreateImpl", "createIssue", FormatValidationError("create", "issue", "title is required"))
      ELSE IF body.v = ""
        THEN Rejected("CreateImpl", "createIssue", FormatValidationError("create", "issue", "body is required"))
      ELSE IF due_date.ok /\ due_date.v # "" /\ ~ParsesRFC3339(due_date.v)
        THEN Malformed("CreateImpl", "createIssue", "invalid due_date format (expected RFC3339): ", due_date.v)
      ELSE ClientCall("CreateImpl", "createIssue", "CreateIssue", "failed to create issue: ")

\* CreateImpl.createIssueComment (create.go:156-179)
createIssueComment(args) ==
  LET o == extractOwnerRepo(args)
      index == AsFloat64(args, "index")
      body == AsString(args, "body")
  IN  IF o.err # ""
        THEN Rejected("CreateImpl", "createIssueComment", FormatValidationError("create", "issue_comment", o.err))
      ELSE IF ~index.ok \/ index.v <= 0
        THEN Rejected("CreateImpl", "createIssueComment", FormatValidationError("create", "issue_comment", "index is required"))
      ELSE IF body.v = ""
        THEN Rejected("CreateImpl", "createIssueComment", FormatValidationError("create", "issue_comment", "body is required"))
      ELSE ClientCall("CreateImpl", "createIssueComment", "CreateIssueComment", "failed to create comment: ")

\* CreateImpl.createLabel (create.go:181-211)
createLabel(args) ==
  LET o == extractOwnerRepo(args)
      name == AsString(args, "name")
      color == AsString(args, "color")
  IN  IF o.err # ""
        THEN Rejected("CreateImpl", "createLabel", FormatValidationError("create", "label", o.err))
      ELSE IF name.v = ""
        THEN Rejected("CreateImpl", "createLabel", FormatValidationError("create", "label", "name is required"))
      ELSE IF color.v = ""
        THEN Rejected("CreateImpl", "createLabel", FormatValidationError("create", "label", "color is required"))
      ELSE ClientCall("CreateImpl", "createLabel", "CreateLabel", "failed to create label: ")

\* CreateImpl.createMilestone (create.go:213-245)
createMilestone(args) ==
  LET o == extractOwnerRepo(args)
      title == AsString(args, "title")
      due_date == AsString(args, "due_date")
  IN  IF o.err # ""
        THEN Rejected("CreateImpl", "createMilestone", FormatValidationError("create", "milestone", o.err))
      ELSE IF title.v = ""
        THEN Rejected("CreateImpl", "createMilestone", FormatValidationError("create", "milestone", "title is required"))
      ELSE IF due_date.ok /\ due_date.v # "" /\ ~ParsesRFC3339(due_date.v)
        THEN Malformed("CreateImpl", "createMilestone", "invalid due_date format (expected RFC3339): ", due_date.v)
      ELSE ClientCall("CreateImpl", "createMilestone", "CreateMilestone", "failed to create milestone: ")

\* CreateImpl.createRelease (create.go:247-287)
createRelease(args) ==
  LET o == extractOwnerRepo(args)
      tag_name == AsString(args, "tag_name")
      name == AsString(args, "name")
  IN  IF o.err # ""
        THEN Rejected("CreateImpl", "createRelease", FormatValidationError("create", "release", o.err))
      ELSE IF tag_name.v = ""
        THEN Rejected("CreateImpl", "createRelease", FormatValidationError("create", "release", "tag_name is required"))
      ELSE IF name.v = ""
        THEN Rejected("CreateImpl", "createRelease", FormatValidationError("create", "release", "name is required"))
      ELSE ClientCall("CreateImpl", "createRelease", "CreateRelease", "failed to create release: ")

\* CreateImpl.createWikiPage (create.go:289-319)
createWikiPage(args) ==
  LET o == extractOwnerRepo(args)
      title == AsString(args, "title")
      content == AsString(args, "content")
  IN  IF o.err # ""
        THEN Rejected("CreateImpl", "createWikiPage", FormatValidationError("create", "wiki_page", o.err))
      ELSE IF title.v = ""
        THEN Rejected("CreateImpl", "createWikiPage", FormatValidationError("create", "wiki_page", "title is required"))
      ELSE IF content.v = ""
        THEN Rejected("CreateImpl", "createWikiPage", FormatValidationError("create", "wiki_page", "content is required"))
      ELSE ClientCall("CreateImpl", "createWikiPage", "MyCreateWikiPage", "failed to create wiki page: ")

\* CreateImpl.createPullRequest (create.go:321-367)
createPullRequest(args) ==
  LET o == extractOwnerRepo(args)
      title == AsString(args, "title")
      head == AsString(args, "head")
      base == AsString(args, "base")
  IN  IF o.err # ""
        THEN Rejected("CreateImpl", "createPullRequest", FormatValidationError("create", "pull_request", o.err))
      ELSE IF title.v = ""
        THEN Rejected("CreateImpl", "createPullRequest", FormatValidationError("create", "pull_request", "title is required"))
      ELSE IF head.v = ""
        THEN Rejected("CreateImpl", "createPullRequest", FormatValidationError("create", "pull_request", "head is required"))
      ELSE IF base.v = ""
        THEN Rejected("CreateImpl", "createPullRequest", FormatValidationError("create", "pull_request", "base is required"))
      ELSE ClientCall("CreateImpl", "createPullRequest", "CreatePullRequest", "failed to create pull request: ")

\* GetImpl.getIssue (get.go:89-106)
getIssue(args) ==
  LET o == extractOwnerRepo(args)
      index == AsFloat64(args, "index")
  IN  IF o.err # ""
        THEN Rejected("GetImpl", "getIssue", FormatValidationError("get", "issue", o.err))
      ELSE IF ~index.ok \/ index.v <= 0
        THEN Rejected("GetImpl", "getIssue", FormatValidationError("get", "issue", "index is required"))
      ELSE ClientCall("GetImpl", "getIssue", "GetIssue", "failed to get issue: ")

\* GetImpl.getWikiPage (get.go:108-125)
getWikiPage(args) ==
  LET o == extractOwnerRepo(args)
      page_name == AsString(args, "page_name")
  IN  IF o.err # ""
        THEN Rejected("GetImpl", "getWikiPage", FormatValidationError("get", "wiki_page", o.err))
      ELSE IF page_name.v = ""
        THEN Rejected("GetImpl", "getWikiPage", FormatValidationError("get", "wiki_page", "page_name is required"))
      ELSE ClientCall("GetImpl", "getWikiPage", "MyGetWikiPage", "failed to get wiki page: ")

\* GetImpl.getPullRequest (get.go:127-144)
getPullRequest(args) ==
  LET o == extractOwnerRepo(args)
      index == AsFloat64(args, "index")
  IN  IF o.err # ""
        THEN Rejected("GetImpl", "getPullRequest", FormatValidationError("get", "pull_request", o.err))
      ELSE IF ~index.ok \/ index.v <= 0
        THEN Rejected("GetImpl", "getPullRequest", FormatValidationError("get", "pull_request", "index is required"))
      ELSE ClientCall("GetImpl", "getPullRequest", "GetPullRequest", "failed to get pull request: ")

\* GetImpl.getRepository (get.go:146-158)
getRepository(args) ==
  LET o == extractOwnerRepo(args)
  IN  IF o.err # ""
        THEN Rejected("GetImpl", "getRepository", FormatValidationError("get", "repository", o.err))
      ELSE ClientCall("GetImpl", "getRepository", "GetRepo", "failed to get repository: ")

\* ListImpl.listIssues (list.go:115-167)
listIssues(args) ==
  LET o == extractOwnerRepo(args)
      since == AsString(args, "since")
      before == AsString(args, "before")
  IN  IF o.err # ""
        THEN Rejected("ListImpl", "listIssues", FormatValidationError("list", "issue", o.err))
      ELSE IF since.ok /\ since.v # "" /\ ~ParsesRFC3339(since.v)
        THEN Malformed("ListImpl", "listIssues", "invalid since format (expected RFC3339): ", since.v)
      ELSE IF before.ok /\ before.v # "" /\ ~ParsesRFC3339(before.v)
        THEN Malformed("ListImpl", "listIssues", "invalid before format (expected RFC3339): ", before.v)
      ELSE ClientCall("ListImpl", "listIssues", "ListRepoIssues", "failed to list issues: ")

\* ListImpl.listIssueComments (list.go:169-211)
listIssueComments(args) ==
  LET o == extractOwnerRepo(args)
      index == AsFloat64(args, "index")
      since == AsString(args, "since")
      before == AsString(args, "before")
  IN  IF o.err # ""
        THEN Rejected("ListImpl", "listIssueComments", FormatValidationError("list", "issue_comment", o.err))
      ELSE IF ~index.ok \/ index.v <= 0
        THEN Rejected("ListImpl", "listIssueComments", FormatValidationError("list", "issue_comment", "index is required"))
      ELSE IF since.ok /\ since.v # "" /\ ~ParsesRFC3339(since.v)
        THEN Malformed("ListImpl", "listIssueComments", "invalid since format: ", since.v)
      ELSE IF before.ok /\ before.v # "" /\ ~ParsesRFC3339(before.v)
        THEN Malformed("ListImpl", "listIssueComments", "invalid before format: ", before.v)
      ELSE ClientCall("ListImpl", "listIssueComments", "ListIssueComments", "failed to list comments: ")

\* ListImpl.listIssueAttachments (list.go:213-238)
listIssueAttachments(args) ==
  LET o == extractOwnerRepo(args)
      index == AsFloat64(args, "index")
  IN  IF o.err # ""
        THEN Rejected("ListImpl", "listIssueAttachments", FormatValidationError("list", "issue_attachment", o.err))
      ELSE IF ~index.ok \/ index.v <= 0
        THEN Rejected("ListImpl", "listIssueAttachments", FormatValidationError("list", "issue_attachment", "index is required"))
      ELSE ClientCall("ListImpl", "listIssueAttachments", "MyListIssueAttachments", "failed to list attachments: ")

\* ListImpl.listLabels (list.go:240-260)
listLabels(args) ==
  LET o == extractOwnerRepo(args)
  IN  IF o.err # ""
        THEN Rejected("ListImpl", "listLabels", FormatValidationError("list", "label", o.err))
      ELSE ClientCall("ListImpl", "listLabels", "ListRepoLabels", "failed to list labels: ")

\* ListImpl.listMilestones (list.go:262-296)
listMilestones(args) ==
  LET o == extractOwnerRepo(args)
  IN  IF o.err # ""
        THEN Rejected("ListImpl", "listMilestones", FormatValidationError("list", "milestone", o.err))
      ELSE ClientCall("ListImpl", "listMilestones", "ListRepoMilestones", "failed to list milestones: ")

\* ListImpl.listReleases (list.go:298-326)
listReleases(args) ==
  LET o == extractOwnerRepo(args)
  IN  IF o.err # ""
        THEN Rejected("ListImpl", "listReleases", FormatValidationError("list", "release", o.err))
      ELSE ClientCall("ListImpl", "listReleases", "ListReleases", "failed to list releases: ")

\* ListImpl.listReleaseAttachments (list.go:328-353)
listReleaseAttachments(args) ==
  LET o == extractOwnerRepo(args)
      id == AsFloat64(args, "id")
  IN  IF o.err # ""
        THEN Rejected("ListImpl", "listReleaseAttachments", FormatValidationError("list", "release_attachment", o.err))
      ELSE IF ~id.ok \/ id.v <= 0
        THEN Rejected("ListImpl", "listReleaseAttachments", FormatValidationError("list", "release_attachment", "id is required"))
      ELSE ClientCall("ListImpl", "listReleaseAttachments", "ListReleaseAttachments", "failed to list release attachments: ")

\* ListImpl.listWikiPages (list.go:355-372)
listWikiPages(args) ==
  LET o == extractOwnerRepo(args)
  IN  IF o.err # ""
        THEN Rejected("ListImpl", "listWikiPages", FormatValidationError("list", "wiki_page", o.err))
      ELSE ClientCall("ListImpl", "listWikiPages", "MyListWikiPages", "failed to list wiki pages: ")

\* ListImpl.listPullRequests (list.go:374-411)
listPullRequests(args) ==
  LET o == extractOwnerRepo(args)
  IN  IF o.err # ""
        THEN Rejected("ListImpl", "listPullRequests", FormatValidationError("list", "pull_request", o.err))
      ELSE ClientCall("ListImpl", "listPullRequests", "ListRepoPullRequests", "failed to list pull requests: ")

\* ListImpl.listMyRepositories (list.go:431-454)
listMyRepositories(args) ==
  ClientCall("ListImpl", "listMyRepositories", "ListMyRepos", "failed to list my repositories: ")

\* ListImpl.listOrgRepositories (list.go:456-484)
listOrgRepositories(args) ==
  LET org == AsString(args, "org")
  IN  IF org.v = ""
        THEN Rejected("ListImpl", "listOrgRepositories", FormatValidationError("list", "repository", "org is required for scope='org'"))
      ELSE ClientCall("ListImpl", "listOrgRepositories", "ListOrgRepos", "failed to list organization repositories: ")

\* ListImpl.searchRepositories (list.go:486-517)
searchRepositories(args) ==
  ClientCall("ListImpl", "searchRepositories", "SearchRepos", "failed to search repositories: ")

\* ListImpl.listActionTasks (list.go:519-536)
listActionTasks(args) ==
  LET o == extractOwnerRepo(args)
  IN  IF o.err # ""
        THEN Rejected("ListImpl", "listActionTasks", FormatValidationError("list", "action_task", o.err))
      ELSE ClientCall("ListImpl", "listActionTasks", "MyListActionTasks", "failed to list action tasks: ")

\* ListImpl.listIssueDependencies (list.go:538-556)
listIssueDependencies(args) ==
  LET o == extractOwnerRepo(args)
      index == AsFloat64(args, "index")
  IN  IF o.err # ""
        THEN Rejected("ListImpl", "listIssueDependencies", FormatValidationError("list", "issue_dependency", o.err))
      ELSE IF ~index.ok \/ index.v <= 0
        THEN Rejected("ListImpl", "listIssueDependencies", FormatValidationError("list", "issue_dependency", "index is required"))
      ELSE ClientCall("ListImpl", "listIssueDependencies", "MyListIssueDependencies", "failed to list dependencies: ")

\* ListImpl.listIssueBlocking (list.go:558-576)
listIssueBlocking(args) ==
  LET o == extractOwnerRepo(args)
      index == AsFloat64(args, "index")
  IN  IF o.err # ""
        THEN Rejected("ListImpl", "listIssueBlocking", FormatValidationError("list", "issue_blocking", o.err))
      ELSE IF ~index.ok \/ index.v <= 0
        THEN Rejected("ListImpl", "listIssueBlocking", FormatValidationError("list", "issue_blocking", "index is required"))
      ELSE ClientCall("ListImpl", "listIssueBlocking", "MyListIssueBlocking", "failed to list blocking issues: ")

\* EditImpl.editIssue (doc.go:139-183)
editIssue(args) ==
  LET o == extractOwnerRepo(args)
      index == AsFloat64(args, "index")
      due_date == AsString(args, "due_date")
  IN  IF o.err # ""
        THEN Rejected("EditImpl", "editIssue", FormatValidationError("edit", "issue", o.err))
      ELSE IF ~index.ok \/ index.v <= 0
        THEN Rejected("EditImpl", "editIssue", FormatValidationError("edit", "issue", "index is required"))
      ELSE IF due_date.ok /\ due_date.v # "" /\ ~ParsesRFC3339(due_date.v)
        THEN Malformed("EditImpl", "editIssue", "invalid due_date format (expected RFC3339): ", due_date.v)
      ELSE ClientCall("EditImpl", "editIssue", "EditIssue", "failed to edit issue: ")

\* EditImpl.editIssueComment (doc.go:185-208)
editIssueComment(args) ==
  LET o == extractOwnerRepo(args)
      id == AsFloat64(args, "id")
      body == AsString(args, "body")
  IN  IF o.err # ""
        THEN Rejected("EditImpl", "editIssueComment", FormatValidationError("edit", "issue_comment", o.err))
      ELSE IF ~id.ok \/ id.v <= 0
        THEN Rejected("EditImpl", "editIssueComment", FormatValidationError("edit", "issue_comment", "id is required"))
      ELSE IF body.v = ""
        THEN Rejected("EditImpl", "editIssueComment", FormatValidationError("edit", "issue_comment", "body is required"))
      ELSE ClientCall("EditImpl", "editIssueComment", "EditIssueComment", "failed to edit comment: ")

\* EditImpl.editIssueAttachment (doc.go:210-238)
editIssueAttachment(args) ==
  LET o == extractOwnerRepo(args)
      index == AsFloat64(args, "index")
      attachment_id == AsFloat64(args, "attachment_id")
      name == AsString(args, "name")
  IN  IF o.err # ""
        THEN Rejected("EditImpl", "editIssueAttachment", FormatValidationError("edit", "issue_attachment", o.err))
      ELSE IF ~index.ok \/ index.v <= 0
        THEN Rejected("EditImpl", "editIssueAttachment", FormatValidationError("edit", "issue_attachment", "index is required"))
      ELSE IF ~attachment_id.ok \/ attachment_id.v <= 0
        THEN Rejected("EditImpl", "editIssueAttachment", FormatValidationError("edit", "issue_attachment", "attachment_id is required"))
      ELSE IF name.v = ""
        THEN Rejected("EditImpl", "editIssueAttachment", FormatValidationError("edit", "issue_attachment", "name is required"))
      ELSE ClientCall("EditImpl", "editIssueAttachment", "MyEditIssueAttachment", "failed to edit attachment: ")

\* EditImpl.editLabel (doc.go:240-268)
editLabel(args) ==
  LET o == extractOwnerRepo(args)
      id == AsFloat64(args, "id")
  IN  IF o.err # ""
        THEN Rejected("EditImpl", "editLabel", FormatValidationError("edit", "label", o.err))
      ELSE IF ~id.ok \/ id.v <= 0
        THEN Rejected("EditImpl", "editLabel", FormatValidationError("edit", "label", "id is required"))
      ELSE ClientCall("EditImpl", "editLabel", "EditLabel", "failed to edit label: ")

\* editMilestone reaching its client call before it parses due_date.
editMilestoneDueDateAfterCall(args) ==
  LET o == extractOwnerRepo(args)
      id == AsFloat64(args, "id")
      due_date == AsString(args, "due_date")
  IN  IF o.err # ""
        THEN Rejected("EditImpl", "editMilestone", FormatValidationError("edit", "milestone", o.err))
      ELSE IF ~id.ok \/ id.v <= 0
        THEN Rejected("EditImpl", "editMilestone", FormatValidationError("edit", "milestone", "id is required"))
      ELSE IF FALSE
        THEN Malformed("EditImpl", "editMilestone", "invalid due_date format (expected RFC3339): ", due_date.v)
      ELSE ClientCall("EditImpl", "editMilestone", "EditMilestone", "failed to edit milestone: ")

\* EditImpl.editMilestone (doc.go:270-306)
editMilestone(args) ==
  LET o == extractOwnerRepo(args)
      id == AsFloat64(args, "id")
      due_date == AsString(args, "due_date")
  IN  IF o.err # ""
        THEN Rejected("EditImpl", "editMilestone", FormatValidationError("edit", "milestone", o.err))
      ELSE IF ~id.ok \/ id.v <= 0
        THEN Rejected("EditImpl", "editMilestone", FormatValidationError("edit", "milestone", "id is required"))
      ELSE IF due_date.ok /\ due_date.v # "" /\ ~ParsesRFC3339(due_date.v)
        THEN Malformed("EditImpl", "editMilestone", "invalid due_date format (expected RFC3339): ", due_date.v)
      ELSE ClientCall("EditImpl", "editMilestone", "EditMilestone", "failed to edit milestone: ")

\* EditImpl.editRelease (doc.go:308-345)
editRelease(args) ==
  LET o == extractOwnerRepo(args)
      id == AsFloat64(args, "id")
  IN  IF o.err # ""
        THEN Rejected("EditImpl", "editRelease", FormatValidationError("edit", "release", o.err))
      ELSE IF ~id.ok \/ id.v <= 0
        THEN Rejected("EditImpl", "editRelease", FormatValidationError("edit", "release", "id is required"))
      ELSE ClientCall("EditImpl", "editRelease", "EditRelease", "failed to edit release: ")

\* EditImpl.editReleaseAttachment (doc.go:347-375)
editReleaseAttachment(args) ==
  LET o == extractOwnerRepo(args)
      id == AsFloat64(args, "id")
      attachment_id == AsFloat64(args, "attachment_id")
      name == AsString(args, "name")
  IN  IF o.err # ""
        THEN Rejected("EditImpl", "editReleaseAttachment", FormatValidationError("edit", "release_attachment", o.err))
      ELSE IF ~id.ok \/ id.v <= 0
        THEN Rejected("EditImpl", "editReleaseAttachment", FormatValidationError("edit", "release_attachment", "id is required"))
      ELSE IF ~attachment_id.ok \/ attachment_id.v <= 0
        THEN Rejected("EditImpl", "editReleaseAttachment", FormatValidationError("edit", "release_attachment", "attachment_id is required"))
      ELSE IF name.v = ""
        THEN Rejected("EditImpl", "editReleaseAttachment", FormatValidationError("edit", "release_attachment", "name is required"))
      ELSE ClientCall("EditImpl", "editReleaseAttachment", "EditReleaseAttachment", "failed to edit release attachment: ")

\* EditImpl.editWikiPage (doc.go:377-411)
editWikiPage(args) ==
  LET o == extractOwnerRepo(args)
      page_name == AsString(args, "page_name")
      content == AsString(args, "content")
  IN  IF o.err # ""
        THEN Rejected("EditImpl", "editWikiPage", FormatValidationError("edit", "wiki_page", o.err))
      ELSE IF page_name.v = ""
        THEN Rejected("EditImpl", "editWikiPage", FormatValidationError("edit", "wiki_page", "page_name is required"))
      ELSE IF content.v = ""
        THEN Rejected("EditImpl", "editWikiPage", FormatValidationError("edit", "wiki_page", "content is required"))
      ELSE ClientCall("EditImpl", "editWikiPage", "MyEditWikiPage", "failed to edit wiki page: ")

\* DeleteImpl.deleteIssueComment (delete.go:99-116)
deleteIssueComment(args) ==
  LET o == extractOwnerRepo(args)
      id == AsFloat64(args, "id")
  IN  IF o.err # ""
        THEN Rejected("DeleteImpl", "deleteIssueComment", FormatValidationError("delete", "issue_comment", o.err))
      ELSE IF ~id.ok \/ id.v <= 0
        THEN Rejected("DeleteImpl", "deleteIssueComment", FormatValidationError("delete", "issue_comment", "id is required"))
      ELSE ClientCall("DeleteImpl", "deleteIssueComment", "DeleteIssueComment", "failed to delete comment: ")

\* deleteIssueAttachment rejecting a negative attachment_id only.
deleteIssueAttachmentZeroAccepted(args) ==
  LET o == extractOwnerRepo(args)
      index == AsFloat64(args, "index")
      attachment_id == AsFloat64(args, "attachment_id")
  IN  IF o.err # ""
        THEN Rejected("DeleteImpl", "deleteIssueAttachment", FormatValidationError("delete", "issue_attachment", o.err))
      ELSE IF ~index.ok \/ index.v <= 0
        THEN Rejected("DeleteImpl", "deleteIssueAttachment", FormatValidationError("delete", "issue_attachment", "index is required"))
      ELSE IF ~attachment_id.ok \/ attachment_id.v < 0
        THEN Rejected("DeleteImpl", "deleteIssueAttachment", FormatValidationError("delete", "issue_attachment", "attachment_id is required"))
      ELSE ClientCall("DeleteImpl", "deleteIssueAttachment", "MyDeleteIssueAttachment", "failed to delete attachment: ")

\* DeleteImpl.deleteIssueAttachment (delete.go:118-140)
deleteIssueAttachment(args) ==
  LET o == extractOwnerRepo(args)
      index == AsFloat64(args, "index")
      attachment_id == AsFloat64(args, "attachment_id")
  IN  IF o.err # ""
        THEN Rejected("DeleteImpl", "deleteIssueAttachment", FormatValidationError("delete", "issue_attachment", o.err))
      ELSE IF ~index.ok \/ index.v <= 0
        THEN Rejected("DeleteImpl", "deleteIssueAttachment", FormatValidationError("delete", "issue_attachment", "index is required"))
      ELSE IF ~attachment_id.ok \/ attachment_id.v <= 0
        THEN Rejected("DeleteImpl", "deleteIssueAttachment", FormatValidationError("delete", "issue_attachment", "attachment_id is required"))
      ELSE ClientCall("DeleteImpl", "deleteIssueAttachment", "MyDeleteIssueAttachment", "failed to delete attachment: ")

\* DeleteImpl.deleteLabel (delete.go:142-159)
deleteLabel(args) ==
  LET o == extractOwnerRepo(args)
      id == AsFloat64(args, "id")
  IN  IF o.err # ""
        THEN Rejected("DeleteImpl", "deleteLabel", FormatValidationError("delete", "label", o.err))
      ELSE IF ~id.ok \/ id.v <= 0
        THEN Rejected("DeleteImpl", "deleteLabel", FormatValidationError("delete", "label", "id is required"))
      ELSE ClientCall("DeleteImpl", "deleteLabel", "DeleteLabel", "failed to delete label: ")

\* DeleteImpl.deleteMilestone (delete.go:161-178)
deleteMilestone(args) ==
  LET o == extractOwnerRepo(args)
      id == AsFloat64(args, "id")
  IN  IF o.err # ""
        THEN Rejected("DeleteImpl", "deleteMilestone", FormatValidationError("delete", "milestone", o.err))
      ELSE IF ~id.ok \/ id.v <= 0
        THEN Rejected("DeleteImpl", "deleteMilestone", FormatValidationError("delete", "milestone", "id is required"))
      ELSE ClientCall("DeleteImpl", "deleteMilestone", "DeleteMilestone", "failed to delete milestone: ")

\* DeleteImpl.deleteRelease (delete.go:180-197)
deleteRelease(args) ==
  LET o == extractOwnerRepo(args)
      id == AsFloat64(args, "id")
  IN  IF o.err # ""
        THEN Rejected("DeleteImpl", "deleteRelease", FormatValidationError("delete", "release", o.err))
      ELSE IF ~id.ok \/ id.v <= 0
        THEN Rejected("DeleteImpl", "deleteRelease", FormatValidationError("delete", "release", "id is required"))
      ELSE ClientCall("DeleteImpl", "deleteRelease", "DeleteRelease", "failed to delete release: ")

\* DeleteImpl.deleteReleaseAttachment (delete.go:199-221)
deleteReleaseAttachment(args) ==
  LET o == extractOwnerRepo(args)
      id == AsFloat64(args, "id")
      attachment_id == AsFloat64(args, "attachment_id")
  IN  IF o.err # ""
        THEN Rejected("DeleteImpl", "deleteReleaseAttachment", FormatValidationError("delete", "release_attachment", o.err))
      ELSE IF ~id.ok \/ id.v <= 0
        THEN Rejected("DeleteImpl", "deleteReleaseAttachment", FormatValidationError("delete", "release_attachment", "id is required"))
      ELSE IF ~attachment_id.ok \/ attachment_id.v <= 0
        THEN Rejected("DeleteImpl", "deleteReleaseAttachment", FormatValidationError("delete", "release_attachment", "attachment_id is required"))
      ELSE ClientCall("DeleteImpl", "deleteReleaseAttachment", "DeleteReleaseAttachment", "failed to delete release attachment: ")

\* DeleteImpl.deleteWikiPage (delete.go:223-240)
deleteWikiPage(args) ==
  LET o == extractOwnerRepo(args)
      page_name == AsString(args, "page_name")
  IN  IF o.err # ""
        THEN Rejected("DeleteImpl", "deleteWikiPage", FormatValidationError("delete", "wiki_page", o.err))
      ELSE IF page_name.v = ""
        THEN Rejected("DeleteImpl", "deleteWikiPage", FormatValidationError("delete", "wiki_page", "page_name is required"))
      ELSE ClientCall("DeleteImpl", "deleteWikiPage", "MyDeleteWikiPage", "failed to delete wiki page: ")

\* addIssueLabels with the test of index written against 5 in place of 0.
addIssueLabelsIndexAbove5(args) ==
  LET o == extractOwnerRepo(args)
      index == AsFloat64(args, "index")
      labels == AsSlice(args, "labels")
  IN  IF o.err # ""
        THEN Rejected("LinkImpl", "addIssueLabels", FormatValidationError("link", "issue_label", o.err))
      ELSE IF ~index.ok \/ index.v <= 5
        THEN Rejected("LinkImpl", "addIssueLabels", FormatValidationError("link", "issue_label", "index is required"))
      ELSE IF ~labels.ok \/ Len(labels.v) = 0
        THEN Rejected("LinkImpl", "addIssueLabels", FormatValidationError("link", "issue_label", "labels is required (array of label IDs)"))
      ELSE ClientCall("LinkImpl", "addIssueLabels", "AddIssueLabels", "failed to add labels: ")

\* LinkImpl.addIssueLabels (link.go:87-116)
addIssueLabels(args) ==
  LET o == extractOwnerRepo(args)
      index == AsFloat64(args, "index")
      labels == AsSlice(args, "labels")
  IN  IF o.err # ""
        THEN Rejected("LinkImpl", "addIssueLabels", FormatValidationError("link", "issue_label", o.err))
      ELSE IF ~index.ok \/ index.v <= 0
        THEN Rejected("LinkImpl", "addIssueLabels", FormatValidationError("link", "issue_label", "index is required"))
      ELSE IF ~labels.ok \/ Len(labels.v) = 0
        THEN Rejected("LinkImpl", "addIssueLabels", FormatValidationError("link", "issue_label", "labels is required (array of label IDs)"))
      ELSE ClientCall("LinkImpl", "addIssueLabels", "AddIssueLabels", "failed to add labels: ")

\* LinkImpl.addIssueDependency (link.go:118-147)
addIssueDependency(args) ==
  LET o == extractOwnerRepo(args)
      index == AsFloat64(args, "index")
      dependency_index == AsFloat64(args, "dependency_index")
  IN  IF o.err # ""
        THEN Rejected("LinkImpl", "addIssueDependency", FormatValidationError("link", "issue_dependency", o.err))
      ELSE IF ~index.ok \/ index.v <= 0
        THEN Rejected("LinkImpl", "addIssueDependency", FormatValidationError("link", "issue_dependency", "index is required"))
      ELSE IF ~dependency_index.ok \/ dependency_index.v <= 0
        THEN Rejected("LinkImpl", "addIssueDependency", FormatValidationError("link", "issue_dependency", "dependency_index is required"))
      ELSE ClientCall("LinkImpl", "addIssueDependency", "MyAddIssueDependency", "failed to add dependency: ")

\* LinkImpl.addIssueBlocking (link.go:149-178)
addIssueBlocking(args) ==
  LET o == extractOwnerRepo(args)
      index == AsFloat64(args, "index")
      blocked_index == AsFloat64(args, "blocked_index")
  IN  IF o.err # ""
        THEN Rejected("LinkImpl", "addIssueBlocking", FormatValidationError("link", "issue_blocking", o.err))
      ELSE IF ~index.ok \/ index.v <= 0
        THEN Rejected("LinkImpl", "addIssueBlocking", FormatValidationError("link", "issue_blocking", "index is required"))
      ELSE IF ~blocked_index.ok \/ blocked_index.v <= 0
        THEN Rejected("LinkImpl", "addIssueBlocking", FormatValidationError("link", "issue_blocking", "blocked_index is required"))
      ELSE ClientCall("LinkImpl", "addIssueBlocking", "MyAddIssueBlocking", "failed to add blocking relationship: ")

\* UnlinkImpl.removeIssueLabel (unlink.go:86-108)
removeIssueLabel(args) ==
  LET o == extractOwnerRepo(args)
      index == AsFloat64(args, "index")
      label_id == AsFloat64(args, "label_id")
  IN  IF o.err # ""
        THEN Rejected("UnlinkImpl", "removeIssueLabel", FormatValidationError("unlink", "issue_label", o.err))
      ELSE IF ~index.ok \/ index.v <= 0
        THEN Rejected("UnlinkImpl", "removeIssueLabel", FormatValidationError("unlink", "issue_label", "index is required"))
      ELSE IF ~label_id.ok \/ label_id.v <= 0
        THEN Rejected("UnlinkImpl", "removeIssueLabel", FormatValidationError("unlink", "issue_label", "label_id is required"))
      ELSE ClientCall("UnlinkImpl", "removeIssueLabel", "DeleteIssueLabel", "failed to remove label: ")

\* UnlinkImpl.removeIssueDependency (unlink.go:110-139)
removeIssueDependency(args) ==
  LET o == extractOwnerRepo(args)
      index == AsFloat64(args, "index")
      dependency_index == AsFloat64(args, "dependency_index")
  IN  IF o.err # ""
        THEN Rejected("UnlinkImpl", "removeIssueDependency", FormatValidationError("unlink", "issue_dependency", o.err))
      ELSE IF ~index.ok \/ index.v <= 0
        THEN Rejected("UnlinkImpl", "removeIssueDependency", FormatValidationError("unlink", "issue_dependency", "index is required"))
      ELSE IF ~dependency_index.ok \/ dependency_index.v <= 0
        THEN Rejected("UnlinkImpl", "removeIssueDependency", FormatValidationError("unlink", "issue_dependency", "dependency_index is required"))
      ELSE ClientCall("UnlinkImpl", "removeIssueDependency", "MyRemoveIssueDependency", "failed to remove dependency: ")

\* UnlinkImpl.removeIssueBlocking (unlink.go:141-170)
removeIssueBlocking(args) ==
  LET o == extractOwnerRepo(args)
      index == AsFloat64(args, "index")
      blocked_index == AsFloat64(args, "blocked_index")
  IN  IF o.err # ""
        THEN Rejected("UnlinkImpl", "removeIssueBlocking", FormatValidationError("unlink", "issue_blocking", o.err))
      ELSE IF ~index.ok \/ index.v <= 0
        THEN Rejected("UnlinkImpl", "removeIssueBlocking", FormatValidationError("unlink", "issue_blocking", "index is required"))
      ELSE IF ~blocked_index.ok \/ blocked_index.v <= 0
        THEN Rejected("UnlinkImpl", "removeIssueBlocking", FormatValidationError("unlink", "issue_blocking", "blocked_index is required"))
      ELSE ClientCall("UnlinkImpl", "removeIssueBlocking", "MyRemoveIssueBlocking", "failed to remove blocking relationship: ")

\* ListImpl.listRepositories (list.go:413-429); the helper it returns
\* through is recorded in sub.
listRepositories(args) ==
  LET scope == AsString(args, "scope")
      Via(out) == [out EXCEPT !.handler = "listRepositories", !.sub = out.handler]
  IN  IF scope.v = ""
        THEN Rejected("ListImpl", "listRepositories",
                      FormatValidationError("list", "repository", "scope is required ('my', 'org', or 'search')"))
      ELSE CASE scope.v = "my"     -> Via(listMyRepositories(args))
             [] scope.v = "org"    -> Via(listOrgRepositories(args))
             [] scope.v = "search" -> Via(searchRepositories(args))
             [] OTHER -> Rejected("ListImpl", "listRepositories",
                                  FormatValidationError("list", "repository", "scope must be 'my', 'org', or 'search'"))

-----------------------------------------------------------------------------
(* The dispatchers: the closure returned by each XxxImpl.Handler().  ord  *)
(* is the order in which this call's range over Manual visits the keys.    *)

(* No fragment of the registry or of a handler's reason holds a '%', so the *)
(* error fmt.Errorf builds from a FormatValidationError text is that text. *)

\* CreateImplHandler with a default case that returns the bare reason.
CreateImplHandlerPlainDefault(args, ord) ==
  LET resource == AsString(args, "resource").v IN
  IF resource = ""
    THEN DispatchError("MissingDiscriminator",
           <<"resource is required. Valid resources: ">> \o SprintSlice(ListResourcesForAction(ActionCreate, ord)))
  ELSE IF ~LookupManual(ActionCreate, resource).ok
    THEN DispatchError("UnknownResource",
           <<"unknown resource '", resource, "'. Valid resources: ">> \o SprintSlice(ListResourcesForAction(ActionCreate, ord)))
  ELSE CASE resource = "issue"         -> createIssue(args)
         [] resource = "issue_comment" -> createIssueComment(args)
         [] resource = "label"         -> createLabel(args)
         [] resource = "milestone"     -> createMilestone(args)
         [] resource = "release"       -> createRelease(args)
         [] resource = "wiki_page"     -> createWikiPage(args)
         [] resource = "pull_request"  -> createPullRequest(args)
         [] OTHER -> DispatchError("NotImplemented", <<"not implemented">>)

CreateImplHandler(args, ord) ==
  LET resource == AsString(args, "resource").v IN
  IF resource = ""
    THEN DispatchError("MissingDiscriminator",
           <<"resource is required. Valid resources: ">> \o SprintSlice(ListResourcesForAction(ActionCreate, ord)))
  ELSE IF ~LookupManual(ActionCreate, resource).ok
    THEN DispatchError("UnknownResource",
           <<"unknown resource '", resource, "'. Valid resources: ">> \o SprintSlice(ListResourcesForAction(ActionCreate, ord)))
  ELSE CASE resource = "issue"         -> createIssue(args)
         [] resource = "issue_comment" -> createIssueComment(args)
         [] resource = "label"         -> createLabel(args)
         [] resource = "milestone"     -> createMilestone(args)
         [] resource = "release"       -> createRelease(args)
         [] resource = "wiki_page"     -> createWikiPage(args)
         [] resource = "pull_request"  -> createPullRequest(args)
         [] OTHER -> DispatchError("NotImplemented",
                       (FormatValidationError(ActionCreate, resource, "not implemented")))

\* GetImplHandler without the LookupManual step and with a switch whose
\* default falls through to getRepository.
GetImplHandlerUnchecked(args, ord) ==
  LET resource == AsString(args, "resource").v IN
  IF resource = ""
    THEN DispatchError("MissingDiscriminator",
           <<"resource is required. Valid resources: ">> \o SprintSlice(ListResourcesForAction(ActionGet, ord)))
  ELSE CASE resource = "issue"        -> getIssue(args)
         [] resource = "wiki_page"    -> getWikiPage(args)
         [] resource = "pull_request" -> getPullRequest(args)
         [] resource = "repository"   -> getRepository(args)
         [] OTHER -> getRepository(args)

GetImplHandler(args, ord) ==
  LET resource == AsString(args, "resource").v IN
  IF resource = ""
    THEN DispatchError("MissingDiscriminator",
           <<"resource is required. Valid resources: ">> \o SprintSlice(ListResourcesForAction(ActionGet, ord)))
  ELSE IF ~LookupManual(ActionGet, resource).ok
    THEN DispatchError("UnknownResource",
           <<"unknown resource '", resource, "'. Valid resources: ">> \o SprintSlice(ListResourcesForAction(ActionGet, ord)))
  ELSE CASE resource = "issue"        -> getIssue(args)
         [] resource = "wiki_page"    -> getWikiPage(args)
         [] resource = "pull_request" -> getPullRequest(args)
         [] resource = "repository"   -> getRepository(args)
         [] OTHER -> DispatchError("NotImplemented",
                       (FormatValidationError(ActionGet, resource, "not implemented")))

\* ListImplHandler reporting, for an unknown resource, the kinds of create.
ListImplHandlerCreateKinds(args, ord) ==
  LET resource == AsString(args, "resource").v IN
  IF resource = ""
    THEN DispatchError("MissingDiscriminator",
           <<"resource is required. Valid resources: ">> \o SprintSlice(ListResourcesForAction(ActionList, ord)))
  ELSE IF ~LookupManual(ActionList, resource).ok
    THEN DispatchError("UnknownResource",
           <<"unknown resource '", resource, "'. Valid resources: ">> \o SprintSlice(ListResourcesForAction(ActionCreate, ord)))
  ELSE CASE resource = "issue"              -> listIssues(args)
         [] resource = "issue_comment"      -> listIssueComments(args)
         [] resource = "issue_attachment"   -> listIssueAttachments(args)
         [] resource = "label"              -> listLabels(args)
         [] resource = "milestone"          -> listMilestones(args)
         [] resource = "release"            -> listReleases(args)
         [] resource = "release_attachment" -> listReleaseAttachments(args)
         [] resource = "wiki_page"          -> listWikiPages(args)
         [] resource = "pull_request"       -> listPullRequests(args)
         [] resource = "repository"         -> listRepositories(args)
         [] resource = "action_task"        -> listActionTasks(args)
         [] resource = "issue_dependency"   -> listIssueDependencies(args)
         [] resource = "issue_blocking"     -> listIssueBlocking(args)
         [] OTHER -> DispatchError("NotImplemented",
                       (FormatValidationError(ActionList, resource, "not implemented")))

ListImplHandler(args, ord) ==
  LET resource == AsString(args, "resource").v IN
  IF resource = ""
    THEN DispatchError("MissingDiscriminator",
           <<"resource is required. Valid resources: ">> \o SprintSlice(ListResourcesForAction(ActionList, ord)))
  ELSE IF ~LookupManual(ActionList, resource).ok
    THEN DispatchError("UnknownResource",
           <<"unknown resource '", resource, "'. Valid resources: ">> \o SprintSlice(ListResourcesForAction(ActionList, ord)))
  ELSE CASE resource = "issue"              -> listIssues(args)
         [] resource = "issue_comment"      -> listIssueComments(args)
         [] resource = "issue_attachment"   -> listIssueAttachments(args)
         [] resource = "label"              -> listLabels(args)
         [] resource = "milestone"          -> listMilestones(args)
         [] resource = "release"            -> listReleases(args)
         [] resource = "release_attachment" -> listReleaseAttachments(args)
         [] resource = "wiki_page"          -> listWikiPages(args)
         [] resource = "pull_request"       -> listPullRequests(args)
         [] resource = "repository"         -> listRepositories(args)
         [] resource = "action_task"        -> listActionTasks(args)
         [] resource = "issue_dependency"   -> listIssueDependencies(args)
         [] resource = "issue_blocking"     -> listIssueBlocking(args)
         [] OTHER -> DispatchError("NotImplemented",
                       (FormatValidationError(ActionList, resource, "not implemented")))

\* EditImplHandler with the label case of the switch calling editMilestone.
EditImplHandlerLabelAsMilestone(args, ord) ==
  LET resource == AsString(args, "resource").v IN
  IF resource = ""
    THEN DispatchError("MissingDiscriminator",
           <<"resource is required. Valid resources: ">> \o SprintSlice(ListResourcesForAction(ActionEdit, ord)))
  ELSE IF ~LookupManual(ActionEdit, resource).ok
    THEN DispatchError("UnknownResource",
           <<"unknown resource '", resource, "'. Valid resources: ">> \o SprintSlice(ListResourcesForAction(ActionEdit, ord)))
  ELSE CASE resource = "issue"              -> editIssue(args)
         [] resource = "issue_comment"      -> editIssueComment(args)
         [] resource = "issue_attachment"   -> editIssueAttachment(args)
         [] resource = "label"              -> editMilestone(args)
         [] resource = "milestone"          -> editMilestone(args)
         [] resource = "release"            -> editRelease(args)
         [] resource = "release_attachment" -> editReleaseAttachment(args)
         [] resource = "wiki_page"          -> editWikiPage(args)
         [] OTHER -> DispatchError("NotImplemented",
                       (FormatValidationError(ActionEdit, resource, "not implemented")))

EditImplHandler(args, ord) ==
  LET resource == AsString(args, "resource").v IN
  IF resource = ""
    THEN DispatchError("MissingDiscriminator",
           <<"resource is required. Valid resources: ">> \o SprintSlice(ListResourcesForAction(ActionEdit, ord)))
  ELSE IF ~LookupManual(ActionEdit, resource).ok
    THEN DispatchError("UnknownResource",
           <<"unknown resource '", resource, "'. Valid resources: ">> \o SprintSlice(ListResourcesForAction(ActionEdit, ord)))
  ELSE CASE resource = "issue"              -> editIssue(args)
         [] resource = "issue_comment"      -> editIssueComment(args)
         [] resource = "issue_attachment"   -> editIssueAttachment(args)
         [] resource = "label"              -> editLabel(args)
         [] resource = "milestone"          -> editMilestone(args)
         [] resource = "release"            -> editRelease(args)
         [] resource = "release_attachment" -> editReleaseAttachment(args)
         [] resource = "wiki_page"          -> editWikiPage(args)
         [] OTHER -> DispatchError("NotImplemented",
                       (FormatValidationError(ActionEdit, resource, "not implemented")))

\* DeleteImplHandler taking a request without owner for one without resource.
DeleteImplHandlerOwnerFirst(args, ord) ==
  LET resource == AsString(args, "resource").v IN
  IF resource = "" \/ AsString(args, "owner").v = ""
    THEN DispatchError("MissingDiscriminator",
           <<"resource is required. Valid resources: ">> \o SprintSlice(ListResourcesForAction(ActionDelete, ord)))
  ELSE IF ~LookupManual(ActionDelete, resource).ok
    THEN DispatchError("UnknownResource",
           <<"unknown resource '", resource, "'. Valid resources: ">> \o SprintSlice(ListResourcesForAction(ActionDelete, ord)))
  ELSE CASE resource = "issue_comment"      -> deleteIssueComment(args)
         [] resource = "issue_attachment"   -> deleteIssueAttachment(args)
         [] resource = "label"              -> deleteLabel(args)
         [] resource = "milestone"          -> deleteMilestone(args)
         [] resource = "release"            -> deleteRelease(args)
         [] resource = "release_attachment" -> deleteReleaseAttachment(args)
         [] resource = "wiki_page"          -> deleteWikiPage(args)
         [] OTHER -> DispatchError("NotImplemented",
                       (FormatValidationError(ActionDelete, resource, "not implemented")))

DeleteImplHandler(args, ord) ==
  LET resource == AsString(args, "resource").v IN
  IF resource = ""
    THEN DispatchError("MissingDiscriminator",
           <<"resource is required. Valid resources: ">> \o SprintSlice(ListResourcesForAction(ActionDelete, ord)))
  ELSE IF ~LookupManual(ActionDelete, resource).ok
    THEN DispatchError("UnknownResource",
           <<"unknown resource '", resource, "'. Valid resources: ">> \o SprintSlice(ListResourcesForAction(ActionDelete, ord)))
  ELSE CASE resource = "issue_comment"      -> deleteIssueComment(args)
         [] resource = "issue_attachment"   -> deleteIssueAttachment(args)
         [] resource = "label"              -> deleteLabel(args)
         [] resource = "milestone"          -> deleteMilestone(args)
         [] resource = "release"            -> deleteRelease(args)
         [] resource = "release_attachment" -> deleteReleaseAttachment(args)
         [] resource = "wiki_page"          -> deleteWikiPage(args)
         [] OTHER -> DispatchError("NotImplemented",
                       (FormatValidationError(ActionDelete, resource, "not implemented")))

LinkImplHandler(args, ord) ==
  LET linkType == AsString(args, "type").v IN
  IF linkType = ""
    THEN DispatchError("MissingDiscriminator",
           <<"type is required. Valid types: ">> \o SprintSlice(ListLinkTypes))
  ELSE IF ~LookupManual(ActionLink, linkType).ok
    THEN DispatchError("UnknownResource",
           <<"unknown type '", linkType, "'. Valid types: ">> \o SprintSlice(ListLinkTypes))
  ELSE CASE linkType = "issue_label"      -> addIssueLabels(args)
         [] linkType = "issue_dependency" -> addIssueDependency(args)
         [] linkType = "issue_blocking"   -> addIssueBlocking(args)
         [] OTHER -> DispatchError("NotImplemented",
                       (FormatValidationError(ActionLink, linkType, "not implemented")))

\* UnlinkImplHandler without the test for an empty type: an empty type is
\* then looked up like any other.
UnlinkImplHandlerNoEmptyCheck(args, ord) ==
  LET linkType == AsString(args, "type").v IN
  IF FALSE
    THEN DispatchError("MissingDiscriminator",
           <<"type is required. Valid types: ">> \o SprintSlice(ListLinkTypes))
  ELSE IF ~LookupManual(ActionUnlink, linkType).ok
    THEN DispatchError("UnknownResource",
           <<"unknown type '", linkType, "'. Valid types: ">> \o SprintSlice(ListLinkTypes))
  ELSE CASE linkType = "issue_label"      -> removeIssueLabel(args)
         [] linkType = "issue_dependency" -> removeIssueDependency(args)
         [] linkType = "issue_blocking"   -> removeIssueBlocking(args)
         [] OTHER -> DispatchError("NotImplemented",
                       (FormatValidationError(ActionUnlink, linkType, "not implemented")))

UnlinkImplHandler(args, ord) ==
  LET linkType == AsString(args, "type").v IN
  IF linkType = ""
    THEN DispatchError("MissingDiscriminator",
           <<"type is required. Valid types: ">> \o SprintSlice(ListLinkTypes))
  ELSE IF ~LookupManual(ActionUnlink, linkType).ok
    THEN DispatchError("UnknownResource",
           <<"unknown type '", linkType, "'. Valid types: ">> \o SprintSlice(ListLinkTypes))
  ELSE CASE linkType = "issue_label"      -> removeIssueLabel(args)
         [] linkType = "issue_dependency" -> removeIssueDependency(args)
         [] linkType = "issue_blocking"   -> removeIssueBlocking(args)
         [] OTHER -> DispatchError("NotImplemented",
                       (FormatValidationError(ActionUnlink, linkType, "not implemented")))

\* The handler closure that RegisterAll registers for the tool of a verb.
Dispatcher(verb, args, ord) ==
  CASE verb = ActionCreate -> CreateImplHandler(args, ord)
    [] verb = ActionGet    -> GetImplHandler(args, ord)
    [] verb = ActionList   -> ListImplHandler(args, ord)
    [] verb = ActionEdit   -> EditImplHandler(args, ord)
    [] verb = ActionDelete -> DeleteImplHandler(args, ord)
    [] verb = ActionLink   -> LinkImplHandler(args, ord)
    [] verb = ActionUnlink -> UnlinkImplHandler(args, ord)

-----------------------------------------------------------------------------
(* manual.go: the gitea_manual tool.  A string of the module cannot hold a  *)
(* backquote: the backquotes of the Markdown output are written as single   *)
(* quotes.  A table row written by one WriteString call is split into its   *)
(* cells, like a row built by fmt.Sprintf.                                  *)

\* The strings of the model in the order of < on Go strings (bytewise).
SortedStrings ==
  <<"", "Issue", "action_task", "bogus", "issue", "issue ", "issue_attachment", "issue_blocking",
    "issue_comment", "issue_dependency", "issue_label", "label", "label:x", "milestone",
    "pull_request", "release", "release_attachment", "repository", "wiki_page">>

\* sort.Strings(s)
sortStrings(s) ==
  Flatten([ i \in DOMAIN SortedStrings |->
              SelectSeq(s, LAMBDA x : x = SortedStrings[i]) ])

\* if len(desc) > 60 { desc = desc[:57] + "..." }
truncate(desc) == IF Len(desc) > 60 THEN SubSeq(desc, 1, 57) \o "..." ELSE desc

\* formatOverview without the row of unlink_gitea.
formatOverviewWithoutUnlink ==
  <<"# Gitea MCP Tools\n\n",
    "This server provides unified tools for Forgejo/Gitea operations.\n\n",
    "## Available Actions\n\n",
    "| Action | Description |\n",
    "|--------|-------------|\n",
    "| '", "create_gitea", "' | ", "Create resources (issues, labels, milestones, etc.)", " |\n",
    "| '", "get_gitea", "' | ", "Get a single resource by ID/name", " |\n",
    "| '", "list_gitea", "' | ", "List resources with filtering", " |\n",
    "| '", "edit_gitea", "' | ", "Edit existing resources", " |\n",
    "| '", "delete_gitea", "' | ", "Delete resources", " |\n",
    "| '", "link_gitea", "' | ", "Create relationships (labels to issues, dependencies)", " |\n",
    "\n",
    "## How to Use\n\n",
    "Each tool takes a 'resource' parameter (or 'type' for link/unlink) to specify what you're operating on.\n\n",
    "**Examples:**\n",
    "'''\n",
    "create_gitea(resource=\"issue\", owner=\"org\", repo=\"project\", title=\"Bug\", body=\"...\")\n",
    "list_gitea(resource=\"label\", owner=\"org\", repo=\"project\")\n",
    "link_gitea(type=\"issue_label\", owner=\"org\", repo=\"project\", index=42, labels=[1,2])\n",
    "'''\n\n",
    "Call 'gitea_manual(action=\"create\")' to see resources for a specific action.\n",
    "Call 'gitea_manual(action=\"create\", resource=\"issue\")' for full documentation.\n">>

formatOverview ==
  <<"# Gitea MCP Tools\n\n",
    "This server provides unified tools for Forgejo/Gitea operations.\n\n",
    "## Available Actions\n\n",
    "| Action | Description |\n",
    "|--------|-------------|\n",
    "| '", "create_gitea", "' | ", "Create resources (issues, labels, milestones, etc.)", " |\n",
    "| '", "get_gitea", "' | ", "Get a single resource by ID/name", " |\n",
    "| '", "list_gitea", "' | ", "List resources with filtering", " |\n",
    "| '", "edit_gitea", "' | ", "Edit existing resources", " |\n",
    "| '", "delete_gitea", "' | ", "Delete resources", " |\n",
    "| '", "link_gitea", "' | ", "Create relationships (labels to issues, dependencies)", " |\n",
    "| '", "unlink_gitea", "' | ", "Remove relationships", " |\n",
    "\n",
    "## How to Use\n\n",
    "Each tool takes a 'resource' parameter (or 'type' for link/unlink) to specify what you're operating on.\n\n",
    "**Examples:**\n",
    "'''\n",
    "create_gitea(resource=\"issue\", owner=\"org\", repo=\"project\", title=\"Bug\", body=\"...\")\n",
    "list_gitea(resource=\"label\", owner=\"org\", repo=\"project\")\n",
    "link_gitea(type=\"issue_label\", owner=\"org\", repo=\"project\", index=42, labels=[1,2])\n",
    "'''\n\n",
    "Call 'gitea_manual(action=\"create\")' to see resources for a specific action.\n",
    "Call 'gitea_manual(action=\"create\", resource=\"issue\")' for full documentation.\n">>

\* One row of the table of formatResourcesForAction and formatLinkTypes.
kindRow(action, kind) ==
  <<"| '", kind, "' | ", truncate(LookupManual(action, kind).entry.Description), " |\n">>

\* formatResourcesForAction without the call of sort.Strings.
formatResourcesForActionUnsorted(action, ord) ==
  LET resources == ListResourcesForAction(action, ord) IN
  <<"# ", action, "_gitea Resources\n\n",
    "| Resource | Description |\n",
    "|----------|-------------|\n">>
  \o Flatten([ i \in DOMAIN resources |-> kindRow(action, resources[i]) ])
  \o <<"\nCall 'gitea_manual(action=\"", action, "\", resource=\"<resource>\")' for full documentation.\n">>

formatResourcesForAction(action, ord) ==
  LET resources == sortStrings(ListResourcesForAction(action, ord)) IN
  <<"# ", action, "_gitea Resources\n\n",
    "| Resource | Description |\n",
    "|----------|-------------|\n">>
  \o Flatten([ i \in DOMAIN resources |-> kindRow(action, resources[i]) ])
  \o <<"\nCall 'gitea_manual(action=\"", action, "\", resource=\"<resource>\")' for full documentation.\n">>

formatLinkTypes(action) ==
  LET types == ListLinkTypes IN
  <<"# ", action, "_gitea Link Types\n\n",
    "| Type | Description |\n",
    "|------|-------------|\n">>
  \o Flatten([ i \in DOMAIN types |-> kindRow(action, types[i]) ])
  \o <<"\nCall 'gitea_manual(action=\"", action, "\", type=\"<type>\")' for full documentation.\n">>

\* ManualImplHandler storing the descriptions it cut for the table of an
\* action back into the entries of that action.
ManualImplHandlerCuttingInPlace(args, ord) ==
  LET content(text) == [res |-> [kind |-> "text", class |-> "", msg |-> text], registry |-> registry]
      failure(msg)  == [res |-> [kind |-> "error", class |-> "ManualUnknown", msg |-> msg], registry |-> registry]
  IN  IF args.Action = "" THEN content(formatOverview)
      ELSE IF args.Action = "link" \/ args.Action = "unlink"
        THEN IF args.Type = "" THEN content(formatLinkTypes(args.Action))
             ELSE LET l == LookupManual(args.Action, args.Type) IN
                  IF ~l.ok
                    THEN failure(<<"unknown link type '", args.Type, "' for action '", args.Action,
                                   "'. Valid types: ">> \o SprintSlice(ListLinkTypes))
                    ELSE content(FormatManualEntry(l.entry))
      ELSE IF args.Resource = ""
        THEN [res |-> [kind |-> "text", class |-> "", msg |-> formatResourcesForAction(args.Action, ord)],
              registry |-> [ k \in DOMAIN registry |->
                             IF registry[k].Action = args.Action
                               THEN [registry[k] EXCEPT !.Description = truncate(@)]
                               ELSE registry[k] ]]
           ELSE LET l == LookupManual(args.Action, args.Resource) IN
                IF ~l.ok
                  THEN failure(<<"unknown resource '", args.Resource, "' for action '", args.Action,
                                 "'. Valid resources: ">> \o SprintSlice(ListResourcesForAction(args.Action, ord)))
                  ELSE content(FormatManualEntry(l.entry))

\* ManualImplHandler storing the descriptions it cut for the table of link
\* types back into the entries of the verb.
ManualImplHandlerCuttingLinkTypesInPlace(args, ord) ==
  LET content(text) == [res |-> [kind |-> "text", class |-> "", msg |-> text], registry |-> registry]
      failure(msg)  == [res |-> [kind |-> "error", class |-> "ManualUnknown", msg |-> msg], registry |-> registry]
  IN  IF args.Action = "" THEN content(formatOverview)
      ELSE IF args.Action = "link" \/ args.Action = "unlink"
        THEN IF args.Type = ""
             THEN [res |-> [kind |-> "text", class |-> "", msg |-> formatLinkTypes(args.Action)],
                   registry |-> [ k \in DOMAIN registry |->
                                  IF registry[k].Action = args.Action
                                    THEN [registry[k] EXCEPT !.Description = truncate(@)]
                                    ELSE registry[k] ]]
             ELSE LET l == LookupManual(args.Action, args.Type) IN
                  IF ~l.ok
                    THEN failure(<<"unknown link type '", args.Type, "' for action '", args.Action,
                                   "'. Valid types: ">> \o SprintSlice(ListLinkTypes))
                    ELSE content(FormatManualEntry(l.entry))
      ELSE IF args.Resource = "" THEN content(formatResourcesForAction(args.Action, ord))
           ELSE LET l == LookupManual(args.Action, args.Resource) IN
                IF ~l.ok
                  THEN failure(<<"unknown resource '", args.Resource, "' for action '", args.Action,
                                 "'. Valid resources: ">> \o SprintSlice(ListResourcesForAction(args.Action, ord)))
                  ELSE content(FormatManualEntry(l.entry))

\* ManualImplHandler testing, for link and unlink, the field resource in
\* place of the field type.
ManualImplHandlerLinkByResource(args, ord) ==
  LET content(text) == [res |-> [kind |-> "text", class |-> "", msg |-> text], registry |-> registry]
      failure(msg)  == [res |-> [kind |-> "error", class |-> "ManualUnknown", msg |-> msg], registry |-> registry]
  IN  IF args.Action = "" THEN content(formatOverview)
      ELSE IF args.Action = "link" \/ args.Action = "unlink"
        THEN IF args.Resource = "" THEN content(formatLinkTypes(args.Action))
             ELSE LET l == LookupManual(args.Action, args.Type) IN
                  IF ~l.ok
                    THEN failure(<<"unknown link type '", args.Type, "' for action '", args.Action,
                                   "'. Valid types: ">> \o SprintSlice(ListLinkTypes))
                    ELSE content(FormatManualEntry(l.entry))
      ELSE IF args.Resource = "" THEN content(formatResourcesForAction(args.Action, ord))
           ELSE LET l == LookupManual(args.Action, args.Resource) IN
                IF ~l.ok
                  THEN failure(<<"unknown resource '", args.Resource, "' for action '", args.Action,
                                 "'. Valid resources: ">> \o SprintSlice(ListResourcesForAction(args.Action, ord)))
                  ELSE content(FormatManualEntry(l.entry))

\* ManualImplHandler answering the listing of an action that is not a verb
\* with an error.
ManualImplHandlerRejectingUnknownAction(args, ord) ==
  LET content(text) == [res |-> [kind |-> "text", class |-> "", msg |-> text], registry |-> registry]
      failure(msg)  == [res |-> [kind |-> "error", class |-> "ManualUnknown", msg |-> msg], registry |-> registry]
  IN  IF args.Action = "" THEN content(formatOverview)
      ELSE IF args.Action = "link" \/ args.Action = "unlink"
        THEN IF args.Type = "" THEN content(formatLinkTypes(args.Action))
             ELSE LET l == LookupManual(args.Action, args.Type) IN
                  IF ~l.ok
                    THEN failure(<<"unknown link type '", args.Type, "' for action '", args.Action,
                                   "'. Valid types: ">> \o SprintSlice(ListLinkTypes))
                    ELSE content(FormatManualEntry(l.entry))
      ELSE IF args.Resource = ""
        THEN IF args.Action \in Action THEN content(formatResourcesForAction(args.Action, ord))
             ELSE failure(<<"unknown action '", args.Action, "'">>)
           ELSE LET l == LookupManual(args.Action, args.Resource) IN
                IF ~l.ok
                  THEN failure(<<"unknown resource '", args.Resource, "' for action '", args.Action,
                                 "'. Valid resources: ">> \o SprintSlice(ListResourcesForAction(args.Action, ord)))
                  ELSE content(FormatManualEntry(l.entry))

\* ManualImpl.Handler.  args is a ManualParams: three strings, "" when the
\* request leaves the field out.  The handler writes local variables only:
\* the package variable Manual is, after the call, what it was before.
ManualImplHandler(args, ord) ==
  LET content(text) == [res |-> [kind |-> "text", class |-> "", msg |-> text], registry |-> registry]
      failure(msg)  == [res |-> [kind |-> "error", class |-> "ManualUnknown", msg |-> msg], registry |-> registry]
  IN  IF args.Action = "" THEN content(formatOverview)
      ELSE IF args.Action = "link" \/ args.Action = "unlink"
        THEN IF args.Type = "" THEN content(formatLinkTypes(args.Action))
             ELSE LET l == LookupManual(args.Action, args.Type) IN
                  IF ~l.ok
                    THEN failure(<<"unknown link type '", args.Type, "' for action '", args.Action,
                                   "'. Valid types: ">> \o SprintSlice(ListLinkTypes))
                    ELSE content(FormatManualEntry(l.entry))
      ELSE IF args.Resource = "" THEN content(formatResourcesForAction(args.Action, ord))
           ELSE LET l == LookupManual(args.Action, args.Resource) IN
                IF ~l.ok
                  THEN failure(<<"unknown resource '", args.Resource, "' for action '", args.Action,
                                 "'. Valid resources: ">> \o SprintSlice(ListResourcesForAction(args.Action, ord)))
                  ELSE content(FormatManualEntry(l.entry))

-----------------------------------------------------------------------------
(* The tool definitions: what each XxxImpl.Definition() advertises for the  *)
(* discriminator of its tool.                                               *)

\* InputSchema.Properties[discriminator].Enum, in source order.
SchemaEnum(verb) ==
  CASE verb = ActionCreate -> <<"issue", "issue_comment", "label", "milestone", "release", "wiki_page", "pull_request">>
    [] verb = ActionGet    -> <<"issue", "wiki_page", "pull_request", "repository">>
    [] verb = ActionList   -> <<"issue", "issue_comment", "issue_attachment", "label",
                                "milestone", "release", "release_attachment", "wiki_page",
                                "pull_request", "repository", "action_task",
                                "issue_dependency", "issue_blocking">>
    [] verb = ActionEdit   -> <<"issue", "issue_comment", "issue_attachment", "label",
                                "milestone", "release", "release_attachment", "wiki_page">>
    [] verb = ActionDelete -> <<"issue_comment", "issue_attachment", "label",
                                "milestone", "release", "release_attachment", "wiki_page">>
    [] verb = ActionLink   -> <<"issue_label", "issue_dependency", "issue_blocking">>
    [] verb = ActionUnlink -> <<"issue_label", "issue_dependency", "issue_blocking">>

\* The kinds named on the "Resources: ..." or "Types: ..." line of the
\* tool's Description, in source order.
DescribedKinds(verb) ==
  CASE verb = ActionCreate -> <<"issue", "issue_comment", "label", "milestone", "release", "wiki_page", "pull_request">>
    [] verb = ActionGet    -> <<"issue", "wiki_page", "pull_request", "repository">>
    [] verb = ActionList   -> <<"issue", "issue_comment", "issue_attachment", "label", "milestone", "release",
                                "release_attachment", "wiki_page", "pull_request", "repository", "action_task",
                                "issue_dependency", "issue_blocking">>
    [] verb = ActionEdit   -> <<"issue", "issue_comment", "issue_attachment", "label", "milestone", "release",
                                "release_attachment", "wiki_page">>
    [] verb = ActionDelete -> <<"issue_comment", "issue_attachment", "label", "milestone", "release",
                                "release_attachment", "wiki_page">>
    [] verb = ActionLink   -> <<"issue_label", "issue_dependency", "issue_blocking">>
    [] verb = ActionUnlink -> <<"issue_label", "issue_dependency", "issue_blocking">>

-----------------------------------------------------------------------------
(* The requests of the model.  For a registered (verb, kind) the canonical  *)
(* call gives every Required parameter of the registry entry a well-typed,  *)
(* non-empty value; a request changes at most MaxDefects keys of it to a    *)
(* value of the right or the wrong type, to an empty value, or drops them,  *)
(* and may add optional parameters.                                         *)

Absent == [t |-> "absent", s |-> "", n |-> 0, a |-> <<>>, b |-> FALSE]

TimeParams == {"due_date", "since", "before"}

\* The name of the discriminator field of each tool, and of the other one.
DiscriminatorField(verb) == IF verb \in {ActionLink, ActionUnlink} THEN "type" ELSE "resource"
OtherField(verb) == IF verb \in {ActionLink, ActionUnlink} THEN "resource" ELSE "type"

KindsOf(verb) == { r \in KindNames : ManualKey(verb, r) \in DOMAIN Manual }

CanonicalValue(p) ==
  CASE p.Type = "integer" -> Num(5)
    [] p.Type = "array"   -> Arr(<<1, 2>>)
    [] p.Type = "boolean" -> Bool(TRUE)
    [] OTHER -> IF Len(p.Enum) > 0 THEN Str(p.Enum[1]) ELSE Str("v")

\* The values a request may give a parameter instead of the canonical one or
\* of leaving it out: every shape for a Required parameter and for a
\* timestamp, a well-typed or an empty value for any other optional one.
ValuesFor(p) ==
  {Absent} \cup
  IF ~p.Required /\ p.Name \notin TimeParams
    THEN {CanonicalValue(p)} \cup (IF p.Type = "string" THEN {Str("")} ELSE {})
  ELSE
  CASE p.Type = "integer" -> {Num(5), Num(0), Num(-1), Str("5")}
    [] p.Type = "array"   -> {Arr(<<1, 2>>), Arr(<<>>), Str("v")}
    [] p.Type = "boolean" -> {Bool(TRUE), Str("v")}
    [] OTHER -> IF p.Name \in TimeParams THEN {Str(GoodTime), Str(BadTime), Str(""), Num(5)}
                ELSE IF Len(p.Enum) > 0 THEN {Str(p.Enum[i]) : i \in DOMAIN p.Enum} \cup {Str("other"), Str("")}
                ELSE {Str("v"), Str(""), Num(5)}

\* bag with key k set to v (dropped when v is Absent)
SetArg(bag, k, v) ==
  IF v = Absent THEN [ x \in DOMAIN bag \ {k} |-> bag[x] ]
  ELSE [ x \in DOMAIN bag \cup {k} |-> IF x = k THEN v ELSE bag[x] ]

\* choices: a sequence of <<key, set of values>>.  All bags that differ from
\* base in at most d of these keys.
RECURSIVE Vary(_, _, _)
Vary(base, choices, d) ==
  IF choices = <<>> \/ d = 0 THEN {base}
  ELSE LET k    == Head(choices)[1]
           vals == Head(choices)[2]
       IN  Vary(base, Tail(choices), d)
           \cup UNION { { SetArg(b, k, v) : b \in Vary(base, Tail(choices), d - 1) } : v \in vals }

CanonicalArgs(verb, kind) ==
  LET params == Manual[ManualKey(verb, kind)].Params
      req    == { i \in DOMAIN params : params[i].Required }
      names  == { params[i].Name : i \in req }
  IN  [ x \in names \cup {DiscriminatorField(verb)} |->
          IF x = DiscriminatorField(verb) THEN Str(kind)
          ELSE CanonicalValue(params[CHOOSE i \in req : params[i].Name = x]) ]

OtherFieldChoice(verb) == <<OtherField(verb), {Str(CHOOSE k \in KindsOf(verb) : TRUE)}>>

ValidKindBags(verb, kind) ==
  LET params == Manual[ManualKey(verb, kind)].Params IN
  Vary(CanonicalArgs(verb, kind),
       [ i \in DOMAIN params |-> <<params[i].Name, ValuesFor(params[i])>> ] \o <<OtherFieldChoice(verb)>>,
       MaxDefects)

\* Discriminator values that are missing, not strings, or not registered
\* for the verb (kinds of other verbs, and near misses of a registered kind).
BadDiscriminators(verb) ==
  {Absent, Str(""), Num(5), Str("bogus"), Str("Issue"), Str("issue ")}
  \cup { Str(k) : k \in KindNames \ KindsOf(verb) }

BadKindBags(verb) ==
  UNION { Vary(SetArg([owner |-> Str("v"), repo |-> Str("v")], DiscriminatorField(verb), dv),
               << <<"owner", {Absent}>>, <<"index", {Num(5)}>>, OtherFieldChoice(verb) >>,
               MaxDefects)
          : dv \in BadDiscriminators(verb) }

ArgBags(verb) == BadKindBags(verb) \cup UNION { ValidKindBags(verb, k) : k \in KindsOf(verb) }

\* Reasons handed to FormatValidationError.
Reasons == {"title is required", "not implemented", "x", ""}

-----------------------------------------------------------------------------
(* The state machine.  One request is in flight at a time; it is served by  *)
(* one of the tools, blocks at most once in a forgejo client call, and its  *)
(* result is handed back to the caller.                                     *)

\* (*mcp.CallToolResult, any, error) as returned to the MCP server, plus the
\* values returned by the package functions called directly.
NoResult ==
  [payloadNil |-> TRUE, payload |-> <<>>, errNil |-> TRUE, err |-> <<>>, class |-> "",
   list |-> <<>>, entry |-> ZeroManualEntry, found |-> FALSE]

ErrorResult(class, msg) == [NoResult EXCEPT !.errNil = FALSE, !.err = msg, !.class = class]

\* textResult(text), nil, nil
textResult(text) == [NoResult EXCEPT !.payloadNil = FALSE, !.payload = text]

NoPending == Outcome("", "", "", "", <<>>, "", "")

NoRequest == [tool |-> "", args |-> <<>>]

NoMemo == [fn |-> "", args |-> <<>>, entry |-> ZeroManualEntry, found |-> FALSE, list |-> <<>>]

\* A goroutine of the server that runs no dispatcher call, and the server
\* with every goroutine such.
IdleFlight == [pc |-> "idle", verb |-> "", args |-> <<>>, resource |-> "", out |-> NoPending, alone |-> NoPending]

NoFlight == [ i \in 1..MaxInFlight |-> IdleFlight ]

Init ==
  /\ registry = Manual
  /\ pc = "idle"
  /\ request = NoRequest
  /\ invoked = <<>>
  /\ pending = NoPending
  /\ upstreamCalls = 0
  /\ result = NoResult
  /\ memo = NoMemo
  /\ flight = NoFlight

\* The dispatcher ran up to its return or up to the client call of a handler.
Serve(tool, args, out) ==
  /\ request' = [tool |-> tool, args |-> args]
  /\ invoked' = IF out.handler = "" THEN <<>> ELSE <<[impl |-> out.impl, handler |-> out.handler]>>
  /\ IF out.kind = "error"
       THEN /\ pc' = "done"
            /\ result' = ErrorResult(out.class, out.msg)
            /\ pending' = NoPending
            /\ upstreamCalls' = 0
       ELSE /\ pc' = "upstream"
            /\ result' = NoResult
            /\ pending' = out
            /\ upstreamCalls' = 1
  /\ UNCHANGED <<registry, memo, flight>>

create_gitea ==
  /\ pc = "idle"
  /\ \E args \in ArgBags(ActionCreate), ord \in MapIterOrders :
       Serve("create_gitea", args, CreateImplHandler(args, ord))

get_gitea ==
  /\ pc = "idle"
  /\ \E args \in ArgBags(ActionGet), ord \in MapIterOrders :
       Serve("get_gitea", args, GetImplHandler(args, ord))

list_gitea ==
  /\ pc = "idle"
  /\ \E args \in ArgBags(ActionList), ord \in MapIterOrders :
       Serve("list_gitea", args, ListImplHandler(args, ord))

edit_gitea ==
  /\ pc = "idle"
  /\ \E args \in ArgBags(ActionEdit), ord \in MapIterOrders :
       Serve("edit_gitea", args, EditImplHandler(args, ord))

delete_gitea ==
  /\ pc = "idle"
  /\ \E args \in ArgBags(ActionDelete), ord \in MapIterOrders :
       Serve("delete_gitea", args, DeleteImplHandler(args, ord))

link_gitea ==
  /\ pc = "idle"
  /\ \E args \in ArgBags(ActionLink), ord \in MapIterOrders :
       Serve("link_gitea", args, LinkImplHandler(args, ord))

unlink_gitea ==
  /\ pc = "idle"
  /\ \E args \in ArgBags(ActionUnlink), ord \in MapIterOrders :
       Serve("unlink_gitea", args, UnlinkImplHandler(args, ord))

\* The forgejo client call of the blocked handler returns; the handler wraps
\* a failure as "<failPrefix><upstream error>" and renders a success.
UpstreamError == "upstream: 500 Internal Server Error"

\* The return of the client call with its failure reported through
\* FormatValidationError, like a validation failure.
ClientReturnsEnriched ==
  /\ pc = "upstream"
  /\ \E ok \in BOOLEAN :
       LET verb == CHOOSE a \in Action : a \o "_gitea" = request.tool
           kind == AsString(request.args, DiscriminatorField(verb)).v
       IN  /\ result' = IF ok THEN textResult(<<"rendered result of ", pending.call>>)
                        ELSE ErrorResult("HandlerUpstream",
                               FormatValidationError(verb, kind, pending.failPrefix \o UpstreamError))
           /\ pending' = [pending EXCEPT !.kind = IF ok THEN "succeeded" ELSE "failed"]
  /\ pc' = "done"
  /\ UNCHANGED <<registry, request, invoked, upstreamCalls, memo, flight>>

\* The return of the client call with a failed call made once more before
\* the failure is reported.
ClientReturnsRetrying ==
  /\ pc = "upstream"
  /\ \E ok \in BOOLEAN :
       IF ~ok /\ upstreamCalls < 2
         THEN /\ pc' = "upstream"
              /\ upstreamCalls' = upstreamCalls + 1
              /\ UNCHANGED <<result, pending>>
         ELSE /\ result' = IF ok THEN textResult(<<"rendered result of ", pending.call>>)
                           ELSE ErrorResult("HandlerUpstream", <<pending.failPrefix, UpstreamError>>)
              /\ pending' = [pending EXCEPT !.kind = IF ok THEN "succeeded" ELSE "failed"]
              /\ pc' = "done"
              /\ UNCHANGED upstreamCalls
  /\ UNCHANGED <<registry, request, invoked, memo, flight>>

ClientReturns ==
  /\ pc = "upstream"
  /\ \E ok \in BOOLEAN :
       /\ result' = IF ok THEN textResult(<<"rendered result of ", pending.call>>)
                    ELSE ErrorResult("HandlerUpstream", <<pending.failPrefix, UpstreamError>>)
       /\ pending' = [pending EXCEPT !.kind = IF ok THEN "succeeded" ELSE "failed"]
  /\ pc' = "done"
  /\ UNCHANGED <<registry, request, invoked, upstreamCalls, memo, flight>>

\* The result has been delivered; the next request may arrive.
Respond ==
  /\ pc = "done"
  /\ pc' = "idle"
  /\ request' = NoRequest
  /\ invoked' = <<>>
  /\ upstreamCalls' = 0
  /\ result' = NoResult
  /\ pending' = NoPending
  /\ UNCHANGED <<registry, memo, flight>>

(* The gitea_manual tool.  Its three fields are strings, empty when the     *)
(* request leaves them out.                                                 *)
ManualActions == Action \cup {"", "bogus"}
ManualResources == {"", "issue", "label", "repository", "issue_label", "bogus", "Issue"}
ManualTypes == {"", "issue_label", "issue_blocking", "issue", "bogus"}

gitea_manual ==
  /\ pc = "idle"
  /\ \E a \in ManualActions, r \in ManualResources, t \in ManualTypes, ord \in MapIterOrders :
       LET out == ManualImplHandler([Action |-> a, Resource |-> r, Type |-> t], ord) IN
       /\ request' = [tool |-> "gitea_manual",
                      args |-> [action |-> Str(a), resource |-> Str(r), type |-> Str(t)]]
       /\ result' = IF out.res.kind = "error" THEN ErrorResult(out.res.class, out.res.msg)
                    ELSE textResult(out.res.msg)
       /\ registry' = out.registry
  /\ pc' = "done"
  /\ UNCHANGED <<invoked, pending, upstreamCalls, memo, flight>>

(* Direct calls of the exported functions of schema.go.                    *)

Called(fn, args, res) ==
  /\ pc = "idle"
  /\ request' = [tool |-> fn, args |-> args]
  /\ result' = res
  /\ pc' = "done"
  /\ UNCHANGED <<registry, invoked, pending, upstreamCalls, memo, flight>>

CallLookupManual ==
  \E action \in Action \cup {"", "bogus"}, r \in Strings :
    LET l == LookupManual(action, r) IN
    Called("LookupManual", [action |-> Str(action), resourceOrType |-> Str(r)],
           [NoResult EXCEPT !.entry = l.entry, !.found = l.ok])

CallListResourcesForAction ==
  \E action \in Action \cup {"", "bogus"}, ord \in MapIterOrders :
    Called("ListResourcesForAction", [action |-> Str(action)],
           [NoResult EXCEPT !.list = ListResourcesForAction(action, ord)])

CallFormatValidationError ==
  \E action \in Action \cup {"", "bogus"}, r \in Strings, message \in Reasons :
    Called("FormatValidationError",
           [action |-> Str(action), resourceOrType |-> Str(r), message |-> Str(message)],
           textResult(FormatValidationError(action, r, message)))

Next ==
  \/ create_gitea
  \/ get_gitea
  \/ list_gitea
  \/ edit_gitea
  \/ delete_gitea
  \/ link_gitea
  \/ unlink_gitea
  \/ gitea_manual
  \/ ClientReturns
  \/ Respond
  \/ CallLookupManual
  \/ CallListResourcesForAction
  \/ CallFormatValidationError

Spec == Init /\ [][Next]_vars

(* Manual is an exported variable: a program that imports the package can   *)
(* register entries before the server starts, ahead of the handlers that    *)
(* will implement them.  ManualUnwired holds two such entries, for kinds    *)
(* that the switch of their dispatcher has no case for.                     *)
UnwiredEntry(action, resource) ==
  [Action |-> action, Resource |-> resource, LinkType |-> "",
   Description |-> "Registered ahead of its handler.",
   Params |-> commonRepoParams,
   Example |-> action \o "_gitea(resource=\"" \o resource \o "\", owner=\"org\", repo=\"project\")"]

ManualUnwired ==
  [ k \in DOMAIN Manual \cup {"get:label", "create:repository"} |->
      IF k \in DOMAIN Manual THEN Manual[k]
      ELSE IF k = "get:label" THEN UnwiredEntry(ActionGet, "label")
      ELSE UnwiredEntry(ActionCreate, "repository") ]

InitUnwired ==
  /\ registry = ManualUnwired
  /\ pc = "idle"
  /\ request = NoRequest
  /\ invoked = <<>>
  /\ pending = NoPending
  /\ upstreamCalls = 0
  /\ result = NoResult
  /\ memo = NoMemo
  /\ flight = NoFlight

SpecUnwired == InitUnwired /\ [][Next]_vars

(* Repeated calls.  A caller keeps what LookupManual or                     *)
(* ListResourcesForAction returned (memo), makes other calls, and asks the  *)
(* same question again.  The calls it remembers are those about the verbs   *)
(* and kinds below; the calls in between are any direct call of the two     *)
(* functions, any gitea_manual request and any valid request to the seven   *)
(* dispatchers.                                                             *)
RememberedActions == {ActionList, ActionLink, "bogus"}
RememberedKinds == {"repository", "issue_blocking", "bogus"}

Remember ==
  /\ pc = "done"
  /\ request.tool \in {"LookupManual", "ListResourcesForAction"}
  /\ request.args.action.s \in RememberedActions
  /\ request.tool = "LookupManual" => request.args.resourceOrType.s \in RememberedKinds
  /\ memo' = [fn |-> request.tool, args |-> request.args,
              entry |-> result.entry, found |-> result.found, list |-> result.list]
  /\ pc' = "idle"
  /\ request' = NoRequest
  /\ result' = NoResult
  /\ UNCHANGED <<registry, invoked, pending, upstreamCalls, flight>>

valid_request ==
  /\ pc = "idle"
  /\ \E ord \in MapIterOrders :
       \/ \E k \in KindsOf(ActionCreate) :
            Serve("create_gitea", CanonicalArgs(ActionCreate, k), CreateImplHandler(CanonicalArgs(ActionCreate, k), ord))
       \/ \E k \in KindsOf(ActionGet) :
            Serve("get_gitea", CanonicalArgs(ActionGet, k), GetImplHandler(CanonicalArgs(ActionGet, k), ord))
       \/ \E k \in KindsOf(ActionList) :
            Serve("list_gitea", CanonicalArgs(ActionList, k), ListImplHandler(CanonicalArgs(ActionList, k), ord))
       \/ \E k \in KindsOf(ActionEdit) :
            Serve("edit_gitea", CanonicalArgs(ActionEdit, k), EditImplHandler(CanonicalArgs(ActionEdit, k), ord))
       \/ \E k \in KindsOf(ActionDelete) :
            Serve("delete_gitea", CanonicalArgs(ActionDelete, k), DeleteImplHandler(CanonicalArgs(ActionDelete, k), ord))
       \/ \E k \in KindsOf(ActionLink) :
            Serve("link_gitea", CanonicalArgs(ActionLink, k), LinkImplHandler(CanonicalArgs(ActionLink, k), ord))
       \/ \E k \in KindsOf(ActionUnlink) :
            Serve("unlink_gitea", CanonicalArgs(ActionUnlink, k), UnlinkImplHandler(CanonicalArgs(ActionUnlink, k), ord))

NextRepeat ==
  \/ CallLookupManual
  \/ CallListResourcesForAction
  \/ Remember
  \/ gitea_manual
  \/ valid_request
  \/ ClientReturns
  \/ Respond

SpecRepeat == Init /\ [][NextRepeat]_vars

-----------------------------------------------------------------------------
(* Dispatcher calls running at the same time.  The server runs each call of *)
(* a tool handler in a goroutine of its own; flight[i] is the call of       *)
(* goroutine i.  A call is a sequence of steps, and between two steps of    *)
(* one call any step of another call may happen:                            *)
(*   read     resource, _ := args["resource"].(string), a local variable,   *)
(*            and the return of the missing-discriminator error;            *)
(*   lookup   LookupManual on that local variable, and the return of the    *)
(*            unknown-resource error;                                       *)
(*   switch   the switch on the local variable, the checks of the selected  *)
(*            handler on the arguments of the call, up to the client call;  *)
(*   upstream the client call returns.                                      *)
(* alone is the outcome of the same call made with no other call running,   *)
(* noted when the call starts.                                              *)

Slots == 1..MaxInFlight

ConcurrentRequests ==
  { [verb |-> ActionCreate, args |-> CanonicalArgs(ActionCreate, "issue")],
    [verb |-> ActionCreate, args |-> SetArg(CanonicalArgs(ActionCreate, "issue"), "title", Absent)],
    [verb |-> ActionCreate, args |-> [resource |-> Str("bogus"), owner |-> Str("v"), repo |-> Str("v")]],
    [verb |-> ActionCreate, args |-> [owner |-> Str("v"), repo |-> Str("v")]],
    [verb |-> ActionList, args |-> CanonicalArgs(ActionList, "label")],
    [verb |-> ActionLink, args |-> CanonicalArgs(ActionLink, "issue_label")] }

\* The variable resource kept in one place for all calls: a call at its
\* lookup or switch finds there what another call at its lookup or switch
\* has stored.
SharedResource(i) ==
  LET others == { j \in 1..MaxInFlight : j # i /\ flight[j].pc \in {"lookup", "switch"} } IN
  IF others = {} THEN flight[i].resource
  ELSE flight[CHOOSE j \in others : TRUE].resource

\* The local variable resource (linkType) of the call of goroutine i.
LocalResource(i) == flight[i].resource

\* The arguments of the call with the discriminator the switch works on.
WithDiscriminator(i) ==
  SetArg(flight[i].args, DiscriminatorField(flight[i].verb), Str(LocalResource(i)))

Step(i, next) ==
  /\ flight' = [flight EXCEPT ![i] = next]
  /\ UNCHANGED <<registry, pc, request, invoked, pending, upstreamCalls, result, memo>>

Arrive ==
  \E i \in Slots, r \in ConcurrentRequests :
    /\ flight[i].pc = "idle"
    /\ Step(i, [IdleFlight EXCEPT !.pc = "read", !.verb = r.verb, !.args = r.args])

ReadDiscriminator ==
  \E i \in Slots :
    /\ flight[i].pc = "read"
    /\ LET resource == AsString(flight[i].args, DiscriminatorField(flight[i].verb)).v
           alone == Dispatcher(flight[i].verb, flight[i].args, RegistryKeys)
       IN
       IF resource = ""
         THEN \E ord \in MapIterOrders :
                Step(i, [flight[i] EXCEPT !.pc = "done", !.alone = alone,
                                          !.out = Dispatcher(flight[i].verb, flight[i].args, ord)])
         ELSE Step(i, [flight[i] EXCEPT !.pc = "lookup", !.alone = alone, !.resource = resource])

LookupStep ==
  \E i \in Slots :
    /\ flight[i].pc = "lookup"
    /\ IF ~LookupManual(flight[i].verb, LocalResource(i)).ok
         THEN \E ord \in MapIterOrders :
                Step(i, [flight[i] EXCEPT !.pc = "done",
                                          !.out = Dispatcher(flight[i].verb, WithDiscriminator(i), ord)])
         ELSE Step(i, [flight[i] EXCEPT !.pc = "switch"])

SwitchStep ==
  \E i \in Slots :
    /\ flight[i].pc = "switch"
    /\ LET out == Dispatcher(flight[i].verb, WithDiscriminator(i), RegistryKeys) IN
       Step(i, [flight[i] EXCEPT !.pc = IF out.kind = "call" THEN "upstream" ELSE "done", !.out = out])

ClientReturnsConcurrent ==
  \E i \in Slots, ok \in BOOLEAN :
    /\ flight[i].pc = "upstream"
    /\ Step(i, [flight[i] EXCEPT !.pc = "done", !.out.kind = IF ok THEN "succeeded" ELSE "failed"])

Depart ==
  \E i \in Slots :
    /\ flight[i].pc = "done"
    /\ Step(i, IdleFlight)

NextConcurrent ==
  \/ Arrive
  \/ ReadDiscriminator
  \/ LookupStep
  \/ SwitchStep
  \/ ClientReturnsConcurrent
  \/ Depart

SpecConcurrent == Init /\ [][NextConcurrent]_vars

-----------------------------------------------------------------------------
(* Vocabulary of the properties.                                           *)

DispatchTools ==
  {"create_gitea", "get_gitea", "list_gitea", "edit_gitea", "delete_gitea", "link_gitea", "unlink_gitea"}

VerbOf(tool) ==
  CASE tool = "create_gitea" -> ActionCreate
    [] tool = "get_gitea"    -> ActionGet
    [] tool = "list_gitea"   -> ActionList
    [] tool = "edit_gitea"   -> ActionEdit
    [] tool = "delete_gitea" -> ActionDelete
    [] tool = "link_gitea"   -> ActionLink
    [] tool = "unlink_gitea" -> ActionUnlink
    [] OTHER -> ""

ImplOf(verb) ==
  CASE verb = ActionCreate -> "CreateImpl"
    [] verb = ActionGet    -> "GetImpl"
    [] verb = ActionList   -> "ListImpl"
    [] verb = ActionEdit   -> "EditImpl"
    [] verb = ActionDelete -> "DeleteImpl"
    [] verb = ActionLink   -> "LinkImpl"
    [] verb = ActionUnlink -> "UnlinkImpl"
    [] OTHER -> ""

\* A dispatcher has been called for the request in flight.
IsDispatch == request.tool \in DispatchTools

ReqVerb == VerbOf(request.tool)

\* The discriminator of the request: the string in its discriminator field,
\* "" when the field is absent or is not a string.
ReqDisc ==
  LET f == DiscriminatorField(ReqVerb) IN
  IF f \in DOMAIN request.args /\ request.args[f].t = "string" THEN request.args[f].s ELSE ""

\* The kinds the registry holds for a verb.
RegisteredKinds(verb) == { r \in Strings : ManualKey(verb, r) \in DOMAIN registry }

Validated == IsDispatch /\ ReqDisc # "" /\ ReqDisc \in RegisteredKinds(ReqVerb)

ReturnedError == pc = "done" /\ ~result.errNil /\ result.payloadNil

\* The elements of the first slice printed in a text, and their number.
ListedIn(text) ==
  LET i == IndexOf(text, "[")
      j == IndexOf(text, "]")
  IN  IF i = 0 \/ j = 0 THEN {} ELSE { text[k] : k \in { x \in (i + 1)..(j - 1) : (x - i) % 2 = 1 } }

ListedCount(text) ==
  LET i == IndexOf(text, "[")
      j == IndexOf(text, "]")
  IN  IF i = 0 \/ j = 0 THEN 0 ELSE (j - i) \div 2

\* The set of values a discriminator error must carry.
ValidSetFor(verb) ==
  IF verb \in {ActionLink, ActionUnlink} THEN Range(ListLinkTypes) ELSE RegisteredKinds(verb)

\* The text is reason followed by the rendered manual entry of (verb, kind).
EnrichedWithEntry(text, verb, kind) ==
  /\ ManualKey(verb, kind) \in DOMAIN registry
  /\ Len(text) >= 4
  /\ text[1] = "Error: "
  /\ SubSeq(text, 3, Len(text)) =
       <<"\n\n", "Here's how to use this operation:\n\n">>
       \o FormatManualEntry(registry[ManualKey(verb, kind)])

\* The text is reason followed by the note that the key has no documentation.
EnrichedWithNote(text, verb, kind) ==
  /\ Len(text) = 6
  /\ text[1] = "Error: "
  /\ SubSeq(text, 3, 6) = <<"\n\nNo documentation found for ", verb, ":", kind>>

-----------------------------------------------------------------------------
(* C1.  Dispatch ordering: a dispatcher invokes a resource handler (and a   *)
(* handler calls the forgejo client) only for a request whose discriminator *)
(* is a non-empty string registered for the dispatcher's verb; for every    *)
(* other discriminator value no handler runs.                               *)
C1_DispatchOrdering ==
  IsDispatch =>
    /\ (invoked # <<>> \/ upstreamCalls > 0 \/ pc = "upstream") =>
         (ReqDisc # "" /\ ManualKey(ReqVerb, ReqDisc) \in DOMAIN registry)
    /\ ManualKey(ReqVerb, ReqDisc) \notin DOMAIN registry =>
         (Len(invoked) = 0 /\ upstreamCalls = 0)

\* A handler was invoked for a registered discriminator.
C1_Witness ==
  /\ request.tool = "link_gitea"
  /\ ReqDisc = "issue_label"
  /\ invoked = <<[impl |-> "LinkImpl", handler |-> "addIssueLabels"]>>
  /\ pc = "upstream"

(* C2.  MissingDiscriminator: when the discriminator field is absent, empty *)
(* or not a string, the dispatcher returns an error and no payload; the     *)
(* error is the "... is required" one and lists exactly the kinds valid for *)
(* the verb (the registered kinds; the link types for link and unlink).     *)
C2_MissingDiscriminator ==
  (IsDispatch /\ ReqDisc = "") =>
    /\ ReturnedError
    /\ result.class = "MissingDiscriminator"
    /\ result.err[1] \in {"resource is required. Valid resources: ", "type is required. Valid types: "}
    /\ ListedIn(result.err) = ValidSetFor(ReqVerb)
    /\ ListedCount(result.err) = Cardinality(ValidSetFor(ReqVerb))
    /\ (ReqVerb = ActionCreate =>
          ListedIn(result.err) =
            {"issue", "label", "milestone", "release", "wiki_page", "pull_request", "issue_comment"})

\* create_gitea was called with resource = "".
C2_Witness ==
  /\ request.tool = "create_gitea"
  /\ "resource" \in DOMAIN request.args
  /\ request.args["resource"] = Str("")
  /\ ReturnedError
  /\ Cardinality(ListedIn(result.err)) = 7

(* C3.  UnknownResource: when the discriminator is a non-empty string that  *)
(* is not registered for the verb, the dispatcher returns an error, other   *)
(* than the MissingDiscriminator one, that quotes the value and lists       *)
(* exactly the kinds valid for the verb (13 of them for list).              *)
C3_UnknownResource ==
  (IsDispatch /\ ReqDisc # "" /\ ReqDisc \notin RegisteredKinds(ReqVerb)) =>
    /\ ReturnedError
    /\ result.class = "UnknownResource"
    /\ result.err[1] \in {"unknown resource '", "unknown type '"}
    /\ result.err[2] = ReqDisc
    /\ ListedIn(result.err) = ValidSetFor(ReqVerb)
    /\ ListedCount(result.err) = Cardinality(ValidSetFor(ReqVerb))
    /\ (ReqVerb = ActionList => ListedCount(result.err) = 13)

\* list_gitea was called with resource = "bogus".
C3_Witness ==
  /\ request.tool = "list_gitea"
  /\ ReqDisc = "bogus"
  /\ ReturnedError
  /\ Cardinality(ListedIn(result.err)) = 13

(* C4.  Routing: a request with a validated discriminator invokes exactly   *)
(* one resource handler, a method of the dispatcher's own Impl, and it is   *)
(* the handler of the discriminator's kind: every validation error it       *)
(* returns documents the pair (verb, discriminator).  A discriminator that  *)
(* differs from a kind only in case or by a blank selects no handler.       *)
C4_Routing ==
  /\ Validated =>
       /\ Len(invoked) = 1
       /\ invoked[1].impl = ImplOf(ReqVerb)
       /\ (pc = "done" /\ ~result.errNil /\ result.err[1] = "Error: ") =>
            EnrichedWithEntry(result.err, ReqVerb, ReqDisc)
  /\ (IsDispatch /\ ReqDisc \in {"Issue", "issue "}) => invoked = <<>>

\* edit_gitea routed a request for a label to editLabel, which rejected it.
C4_Witness ==
  /\ request.tool = "edit_gitea"
  /\ ReqDisc = "label"
  /\ invoked = <<[impl |-> "EditImpl", handler |-> "editLabel"]>>
  /\ ReturnedError
  /\ result.class = "HandlerValidation"

-----------------------------------------------------------------------------
\* A failure the dispatcher produced itself, without a failed client call.
FailedBeforeUpstream == IsDispatch /\ pc = "done" /\ ~result.errNil /\ upstreamCalls = 0

\* The registry entry of the request in flight (of a validated request).
ReqEntry == registry[ManualKey(ReqVerb, ReqDisc)]

RequiredNames(entry) ==
  { entry.Params[i].Name : i \in { j \in DOMAIN entry.Params : entry.Params[j].Required } }

ParamNames(entry) == { entry.Params[i].Name : i \in DOMAIN entry.Params }

\* The parameter is omitted from the bag or is the empty string.
Omitted(args, name) == name \notin DOMAIN args \/ args[name] = Str("")

\* The parameter holds no value a handler can use: it is omitted, or holds a
\* zero value or a value of another type than the registry declares.
Unusable(args, entry, name) ==
  \/ Omitted(args, name)
  \/ \E i \in DOMAIN entry.Params :
       /\ entry.Params[i].Name = name
       /\ LET v == args[name]
              ty == entry.Params[i].Type
          IN  \/ ty = "integer" /\ ~(v.t = "number" /\ v.n > 0)
              \/ ty = "array" /\ ~(v.t = "array" /\ v.a # <<>>)
              \/ ty = "boolean" /\ v.t # "bool"
              \/ ty \notin {"integer", "array", "boolean"} /\ v.t # "string"

\* The reason of a validation error says that parameter name is required.
SaysRequired(reason, name) ==
  \E suffix \in {" is required", " is required (array of label IDs)",
                 " is required ('my', 'org', or 'search')", " is required for scope='org'"} :
    reason = name \o suffix

\* The handler rejected the request, before any client call, for a malformed
\* timestamp: its error carries the failure of time.Parse on the value.
MalformedTimestampRejected ==
  /\ Validated
  /\ FailedBeforeUpstream
  /\ \E p \in TimeParams :
       /\ p \in DOMAIN request.args
       /\ request.args[p].t = "string"
       /\ TimeParseError(request.args[p].s) \in Range(result.err)

(* C5.  Error taxonomy: every failure of a dispatcher other than a failed   *)
(* client call, a missing and an unknown discriminator included, is the raw *)
(* reason followed by the rendered manual entry of the attempted (verb,     *)
(* discriminator) pair or by the no-documentation note.                     *)
C5_EveryLocalFailureEnriched ==
  FailedBeforeUpstream =>
    \/ EnrichedWithEntry(result.err, ReqVerb, ReqDisc)
    \/ EnrichedWithNote(result.err, ReqVerb, ReqDisc)

(* C6.  A malformed timestamp (due_date of create and edit issue and        *)
(* milestone; since and before of list issue and issue_comment) is rejected *)
(* with an error that carries the manual entry of the operation.            *)
C6_MalformedTimestampEnriched ==
  MalformedTimestampRejected =>
    ContainsRun(result.err, FormatManualEntry(ReqEntry))

(* C7.  Required-parameter enforcement: when a request for a registered     *)
(* pair omits, or gives as the empty string, a parameter the registry marks *)
(* Required, the handler makes no client call and returns the text of       *)
(* FormatValidationError for that pair: a reason that names a Required      *)
(* parameter the request does not supply (the omitted one, when it is the   *)
(* only one), followed by the manual entry of the pair.                     *)
C7_RequiredParamsEnforced ==
  (Validated /\ \E p \in RequiredNames(ReqEntry) : Omitted(request.args, p)) =>
    /\ ReturnedError
    /\ upstreamCalls = 0
    /\ Len(invoked) = 1
    /\ EnrichedWithEntry(result.err, ReqVerb, ReqDisc)
    /\ result.err = FormatValidationError(ReqVerb, ReqDisc, result.err[2])
    /\ \E q \in RequiredNames(ReqEntry) :
         /\ Unusable(request.args, ReqEntry, q)
         /\ result.err[2] = q \o " is required" \o
              (IF q = "labels" THEN " (array of label IDs)"
               ELSE IF q = "scope" THEN " ('my', 'org', or 'search')" ELSE "")

\* create_gitea for an issue without body: "body is required" and the entry.
C7_Witness ==
  /\ request.tool = "create_gitea"
  /\ ReqDisc = "issue"
  /\ "body" \notin DOMAIN request.args
  /\ ReturnedError
  /\ result.err[2] = "body is required"
  /\ ContainsRun(result.err, FormatManualEntry(registry["create:issue"]))

\* A handler rejected the request because parameter name is missing.
RejectsMissing(name) ==
  /\ Validated
  /\ FailedBeforeUpstream
  /\ Len(result.err) >= 2
  /\ result.err[1] = "Error: "
  /\ SaysRequired(result.err[2], name)
  /\ Omitted(request.args, name)

AllParamNames == UNION { ParamNames(registry[k]) : k \in DOMAIN registry }

RegistryTextsNonEmpty ==
  \A k \in DOMAIN registry : registry[k].Description # "" /\ registry[k].Example # ""

(* C8, as stated.  Registry completeness: every entry has a non-empty       *)
(* Description and Example, and every parameter a handler rejects when it   *)
(* is missing is in the entry's Params, marked Required.                    *)
C8_RejectedWhenMissingIsRequired ==
  /\ RegistryTextsNonEmpty
  /\ \A name \in AllParamNames :
       RejectsMissing(name) => name \in RequiredNames(ReqEntry)

(* C8, amended.  Every entry has a non-empty Description and Example, and   *)
(* every parameter a handler rejects when it is missing is in the entry's   *)
(* Params; it is marked Required unless the handler asks for it only under  *)
(* a value of another parameter, which is the case of org of list           *)
(* repository alone, asked for when scope is "org".                         *)
C8_RegistryCompleteness ==
  /\ RegistryTextsNonEmpty
  /\ \A name \in AllParamNames :
       RejectsMissing(name) =>
         /\ name \in ParamNames(ReqEntry)
         /\ \/ name \in RequiredNames(ReqEntry)
            \/ /\ ReqVerb = ActionList /\ ReqDisc = "repository" /\ name = "org"
               /\ request.args["scope"] = Str("org")

\* createIssue rejected a request without title, which create:issue marks
\* Required.
C8_Witness ==
  /\ request.tool = "create_gitea"
  /\ ReqDisc = "issue"
  /\ RejectsMissing("title")
  /\ "title" \in RequiredNames(registry["create:issue"])

-----------------------------------------------------------------------------
\* A direct call of a function of schema.go has returned.
Returned(fn) == request.tool = fn /\ pc = "done"

(* C9.  ListResourcesForAction(verb) returns exactly the kinds r for which  *)
(* LookupManual(verb, r) succeeds: none is missing, none is extra and none  *)
(* is listed twice, in whatever order the map is visited.                   *)
C9_ListResourcesForAction ==
  Returned("ListResourcesForAction") =>
    LET action == request.args["action"].s IN
    /\ Range(result.list) = { r \in Strings : LookupManual(action, r).ok }
    /\ Len(result.list) = Cardinality(Range(result.list))

\* ListResourcesForAction("link") returned the three link types.
C9_Witness ==
  /\ Returned("ListResourcesForAction")
  /\ request.args["action"] = Str(ActionLink)
  /\ Len(result.list) = 3
  /\ result.list[1] # LinkIssueLabel

(* C10.  For a registered pair, the text of FormatValidationError holds the *)
(* reason it was given, the Description and the Example of the pair's       *)
(* entry, and the reason stands before the rendered entry.                  *)
C10_FormatValidationError ==
  (/\ Returned("FormatValidationError")
   /\ LookupManual(request.args["action"].s, request.args["resourceOrType"].s).ok) =>
    LET text == result.payload
        entry == registry[ManualKey(request.args["action"].s, request.args["resourceOrType"].s)]
        manual == FormatManualEntry(entry)
    IN  /\ ~result.payloadNil
        /\ Len(text) >= 2 + Len(manual)
        /\ text[2] = request.args["message"].s
        /\ \E i \in 2..(Len(text) - Len(manual)) : SubSeq(text, i + 1, i + Len(manual)) = manual
        /\ \E i \in 3..Len(text) : text[i] = entry.Description
        /\ \E i \in 3..Len(text) : text[i] = entry.Example

\* FormatValidationError("create", "issue", "title is required") returned.
C10_Witness ==
  /\ Returned("FormatValidationError")
  /\ request.args = [action |-> Str("create"), resourceOrType |-> Str("issue"),
                     message |-> Str("title is required")]
  /\ result.payload[2] = "title is required"
  /\ registry["create:issue"].Example \in Range(result.payload)

-----------------------------------------------------------------------------
(* C11.  Enrichment never fails: FormatValidationError returns a text for   *)
(* every action, key and reason, a string that is no verb and an empty key  *)
(* included; for a pair without manual entry the text is the reason and the *)
(* note that no documentation exists for action:key, and nothing else.      *)
C11_EnrichmentTotal ==
  Returned("FormatValidationError") =>
    LET action == request.args["action"].s
        key    == request.args["resourceOrType"].s
        reason == request.args["message"].s
    IN  /\ ~result.payloadNil
        /\ result.errNil
        /\ Len(result.payload) >= 2
        /\ result.payload[1] = "Error: "
        /\ result.payload[2] = reason
        /\ ManualKey(action, key) \notin DOMAIN registry =>
             /\ EnrichedWithNote(result.payload, action, key)
             /\ result.payload = <<"Error: ", reason, "\n\nNo documentation found for ", action, ":", key>>

\* FormatValidationError("bogus", "", "x") returned the reason and the note.
C11_Witness ==
  /\ Returned("FormatValidationError")
  /\ request.args = [action |-> Str("bogus"), resourceOrType |-> Str(""), message |-> Str("x")]
  /\ result.payload[3] = "\n\nNo documentation found for "
  /\ Len(result.payload) = 6

(* C12.  NotImplemented guard: when the discriminator is registered for the *)
(* verb and the switch of the dispatcher has no case for it, the dispatcher *)
(* invokes no handler, makes no client call and fails with the reason       *)
(* "not implemented" followed by the manual entry of the pair.              *)
C12_NotImplementedGuard ==
  (Validated /\ ReqDisc \notin KindsOf(ReqVerb)) =>
    /\ ReturnedError
    /\ invoked = <<>>
    /\ upstreamCalls = 0
    /\ EnrichedWithEntry(result.err, ReqVerb, ReqDisc)
    /\ result.err[2] = "not implemented"

\* get_gitea for a label, registered for get without a case in the switch.
C12_Witness ==
  /\ request.tool = "get_gitea"
  /\ ReqDisc = "label"
  /\ Validated
  /\ ReturnedError
  /\ result.err[2] = "not implemented"
  /\ registry["get:label"].Description \in Range(result.err)

\* The client call of the handler has returned a failure.
UpstreamFailed == IsDispatch /\ pc = "done" /\ upstreamCalls > 0 /\ ~result.errNil

(* C13.  HandlerUpstream pass-through: when the discriminator and the       *)
(* parameters passed validation and the client call failed, the dispatcher  *)
(* returns, with no payload, an error made of a "failed to ...: " prefix    *)
(* and the upstream failure; the error is not the text of                   *)
(* FormatValidationError and holds no manual entry.                         *)
C13_UpstreamPassThrough ==
  UpstreamFailed =>
    /\ result.payloadNil
    /\ Validated
    /\ Len(invoked) = 1
    /\ Len(result.err) = 2
    /\ result.err[2] = UpstreamError
    /\ Len(result.err[1]) > 12
    /\ SubSeq(result.err[1], 1, 10) = "failed to "
    /\ SubSeq(result.err[1], Len(result.err[1]) - 1, Len(result.err[1])) = ": "
    /\ ~ContainsRun(result.err, FormatManualEntry(ReqEntry))
    /\ "Here's how to use this operation:\n\n" \notin Range(result.err)

\* The CreateIssue call of createIssue failed.
C13_Witness ==
  /\ UpstreamFailed
  /\ request.tool = "create_gitea"
  /\ invoked = <<[impl |-> "CreateImpl", handler |-> "createIssue"]>>
  /\ result.err = <<"failed to create issue: ", UpstreamError>>

\* Every parameter of the request is one the handler can use: the Required
\* ones are present with a non-zero value of their type, a timestamp that is
\* given parses, and list repository has a known scope, with org for "org".
ValidParams ==
  /\ \A p \in RequiredNames(ReqEntry) : ~Unusable(request.args, ReqEntry, p)
  /\ \A p \in TimeParams \cap DOMAIN request.args :
       request.args[p].t = "string" => request.args[p].s \in {"", GoodTime}
  /\ (ReqVerb = ActionList /\ ReqDisc = "repository") =>
       /\ request.args["scope"].s \in {"my", "org", "search"}
       /\ request.args["scope"].s = "org" => ~Omitted(request.args, "org") /\ request.args["org"].t = "string"

(* C14.  Success path: for a registered discriminator with every Required  *)
(* parameter present and valid, the dispatcher reaches the client call of   *)
(* the handler, and when that call succeeds it returns the payload rendered *)
(* from the result and no error.                                            *)
C14_SuccessPath ==
  (Validated /\ ValidParams) =>
    /\ upstreamCalls = 1
    /\ Len(invoked) = 1
    /\ pc = "upstream" \/ pending.kind \in {"succeeded", "failed"}
    /\ (pc = "done" /\ pending.kind = "succeeded") =>
         /\ result.errNil
         /\ ~result.payloadNil
         /\ result.payload = <<"rendered result of ", pending.call>>

\* link_gitea with type issue_label, owner, repo, index 5 and labels [1, 2]
\* returned the labels after AddIssueLabels succeeded.
C14_Witness ==
  /\ request.tool = "link_gitea"
  /\ request.args = [type |-> Str("issue_label"), owner |-> Str("v"), repo |-> Str("v"),
                     index |-> Num(5), labels |-> Arr(<<1, 2>>)]
  /\ pc = "done"
  /\ pending.kind = "succeeded"
  /\ result.errNil
  /\ result.payload = <<"rendered result of ", "AddIssueLabels">>

-----------------------------------------------------------------------------
(* Vocabulary of the properties of gitea_manual.                            *)

ManualReturned == request.tool = "gitea_manual" /\ pc = "done"

ManAction == request.args["action"].s

\* The field of the request that selects the entry: type for link and
\* unlink, resource for every other action.
ManDisc ==
  IF ManAction \in {ActionLink, ActionUnlink} THEN request.args["type"].s
  ELSE request.args["resource"].s

\* The level the fields of the request select.
SelectedLevel == IF ManAction = "" THEN 0 ELSE IF ManDisc = "" THEN 1 ELSE 2

\* The level of the answer, read off its text: the catalogue of the tools,
\* the table of the kinds of one action, or one manual entry (or the error
\* that there is none).
AnswerLevel ==
  IF ~result.errNil THEN 2
  ELSE IF result.payload[1] = "# Gitea MCP Tools\n\n" THEN 0
  ELSE IF result.payload[1] = "# " THEN 1
  ELSE IF result.payload[1] = "## " THEN 2
  ELSE 3

(* C15.  Level selection: the answer of gitea_manual is chosen by the       *)
(* fields of the request alone.  No action: the catalogue (Level 0).  An    *)
(* action and an empty discriminator: the table of that action (Level 1).   *)
(* An action and a discriminator: the entry of that pair, or the error that *)
(* it is unknown (Level 2).  The discriminator is type for link and unlink  *)
(* and resource for every other action; the other field changes nothing.    *)
C15_LevelSelection ==
  ManualReturned =>
    /\ AnswerLevel = SelectedLevel
    /\ SelectedLevel = 0 => result.payload = formatOverview
    /\ SelectedLevel = 1 =>
         /\ result.payload[2] = ManAction
         /\ result.payload[3] = (IF ManAction \in {ActionLink, ActionUnlink}
                                   THEN "_gitea Link Types\n\n" ELSE "_gitea Resources\n\n")
    /\ SelectedLevel = 2 =>
         IF ManualKey(ManAction, ManDisc) \in DOMAIN registry
           THEN result.errNil /\ result.payload = FormatManualEntry(registry[ManualKey(ManAction, ManDisc)])
           ELSE result.payloadNil /\ result.err[2] = ManDisc /\ result.err[4] = ManAction

\* gitea_manual(action = "link", resource = "issue") with no type answered
\* with the table of the link types.
C15_Witness ==
  /\ ManualReturned
  /\ request.args = [action |-> Str("link"), resource |-> Str("issue"), type |-> Str("")]
  /\ AnswerLevel = 1
  /\ result.payload[3] = "_gitea Link Types\n\n"

\* The table of a Level 1 answer: three fragments of heading, five fragments
\* a row, one closing line of three fragments.
RowCount == (Len(result.payload) - 8) \div 5
RowKind(i) == result.payload[5 * i + 2]
RowDescription(i) == result.payload[5 * i + 4]

\* Position of a string in the order of sort.Strings.
Rank(s) == CHOOSE i \in DOMAIN SortedStrings : SortedStrings[i] = s

\* shown is description, or its cut to at most 60 characters ending in "...".
ShownFor(shown, description) ==
  IF Len(description) <= 60 THEN shown = description
  ELSE /\ Len(shown) <= 60
       /\ Len(shown) > 3
       /\ SubSeq(shown, Len(shown) - 2, Len(shown)) = "..."
       /\ SubSeq(shown, 1, Len(shown) - 3) = SubSeq(description, 1, Len(shown) - 3)

(* C16.  Level 1 listing: for an action without discriminator the answer is *)
(* a heading, one row per kind valid for the action and a closing line      *)
(* and nothing else.  The rows are the registered kinds in ascending order  *)
(* (the link types in the order of ListLinkTypes for link and unlink), 7    *)
(* rows for delete; the description of a row is that of the entry when it   *)
(* has at most 60 characters and else a cut of it, at most 60 characters    *)
(* long, that ends in "...".                                                *)
C16_Level1Listing ==
  (ManualReturned /\ SelectedLevel = 1) =>
    LET isLink == ManAction \in {ActionLink, ActionUnlink} IN
    /\ result.errNil
    /\ Len(result.payload) >= 8
    /\ (Len(result.payload) - 8) % 5 = 0
    /\ SubSeq(result.payload, 1, 5) =
         IF isLink THEN <<"# ", ManAction, "_gitea Link Types\n\n", "| Type | Description |\n", "|------|-------------|\n">>
         ELSE <<"# ", ManAction, "_gitea Resources\n\n", "| Resource | Description |\n", "|----------|-------------|\n">>
    /\ result.payload[Len(result.payload) - 1] = ManAction
    /\ \A i \in 1..RowCount :
         /\ <<result.payload[5 * i + 1], result.payload[5 * i + 3], result.payload[5 * i + 5]>>
              = <<"| '", "' | ", " |\n">>
         /\ ManualKey(ManAction, RowKind(i)) \in DOMAIN registry
         /\ ShownFor(RowDescription(i), registry[ManualKey(ManAction, RowKind(i))].Description)
    /\ { RowKind(i) : i \in 1..RowCount } = ValidSetFor(ManAction)
    /\ RowCount = Cardinality(ValidSetFor(ManAction))
    /\ IF isLink THEN [ i \in 1..RowCount |-> RowKind(i) ] = ListLinkTypes
       ELSE \A i, j \in 1..RowCount : i < j => Rank(RowKind(i)) < Rank(RowKind(j))
    /\ ManAction = ActionDelete => RowCount = 7

\* gitea_manual(action = "list") listed 13 kinds, repository among them with
\* its description cut to 60 characters.
C16_Witness ==
  /\ ManualReturned
  /\ ManAction = ActionList
  /\ SelectedLevel = 1
  /\ RowCount = 13
  /\ \E i \in 1..RowCount :
       /\ RowKind(i) = "repository"
       /\ Len(RowDescription(i)) = 60
       /\ Len(registry["list:repository"].Description) > 60

\* The string holds no line break.
OneLine(s) == \A k \in 1..Len(s) : SubSeq(s, k, k) # "\n"

(* C17.  Level 0 catalogue: without action the answer is the overview,      *)
(* whose table has exactly seven rows, one for the tool of each of the      *)
(* seven verbs and none twice, each with a one-line description; the text   *)
(* is the same for every request and after every history.                   *)
C17_Level0Catalogue ==
  (ManualReturned /\ SelectedLevel = 0) =>
    /\ result.errNil
    /\ result.payload = formatOverview
    /\ Len(result.payload) = 51
    /\ result.payload[5] = "|--------|-------------|\n"
    /\ result.payload[41] = "\n"
    /\ { result.payload[5 * i + 2] : i \in 1..7 } = { a \o "_gitea" : a \in Action }
    /\ Cardinality(Action) = 7
    /\ Action = {"create", "get", "list", "edit", "delete", "link", "unlink"}
    /\ \A i \in 1..7 :
         /\ result.payload[5 * i + 1] = "| '"
         /\ result.payload[5 * i + 3] = "' | "
         /\ result.payload[5 * i + 5] = " |\n"
         /\ result.payload[5 * i + 4] # ""
         /\ OneLine(result.payload[5 * i + 4])
         /\ Cardinality({ k \in DOMAIN result.payload : result.payload[k] = result.payload[5 * i + 2] }) = 1

\* gitea_manual with a resource and no action answered with the overview.
C17_Witness ==
  /\ ManualReturned
  /\ request.args = [action |-> Str(""), resource |-> Str("issue"), type |-> Str("")]
  /\ result.payload[1] = "# Gitea MCP Tools\n\n"
  /\ result.payload[37] = "unlink_gitea"

\* A rendered manual entry has been returned: by gitea_manual at Level 2 or,
\* behind the reason, by FormatValidationError.  RenderedKey is the pair it
\* was asked for, Rendered the text of the entry.
EntryRendered ==
  \/ ManualReturned /\ SelectedLevel = 2 /\ result.errNil
  \/ /\ Returned("FormatValidationError")
     /\ ManualKey(request.args["action"].s, request.args["resourceOrType"].s) \in DOMAIN registry

RenderedKey ==
  IF request.tool = "gitea_manual" THEN ManualKey(ManAction, ManDisc)
  ELSE ManualKey(request.args["action"].s, request.args["resourceOrType"].s)

Rendered ==
  IF request.tool = "gitea_manual" THEN result.payload
  ELSE SubSeq(result.payload, 5, Len(result.payload))

\* The fragments at which the rows of the parameter table start, and the
\* start of the i-th row.
RowStarts(text) == { k \in 11..Len(text) : text[k] = "| " }
RowStart(text, i) ==
  CHOOSE k \in RowStarts(text) : Cardinality({ j \in RowStarts(text) : j < k }) = i - 1

\* The row of text that starts at fragment k shows the parameter p, and the
\* next fragment after it is at position next.
RowShows(text, k, p, next) ==
  /\ SubSeq(text, k, k + 7) =
       <<"| ", p.Name, " | ", p.Type, " | ", IF p.Required THEN "yes" ELSE "no", " | ", p.Description>>
  /\ IF Len(p.Enum) = 0 THEN /\ text[k + 8] = " |\n"
                             /\ next = k + 9
     ELSE /\ text[k + 8] = " (values: "
          /\ text[k + 9] = "["
          /\ \A n \in DOMAIN p.Enum : text[k + 8 + 2 * n] = p.Enum[n]
          /\ SubSeq(text, k + 9 + 2 * Len(p.Enum), k + 11 + 2 * Len(p.Enum)) = <<"]", ")", " |\n">>
          /\ next = k + 12 + 2 * Len(p.Enum)

(* C18.  Level 2 rendering: the rendering of a registered entry holds its   *)
(* heading, its description, a table with one row per ParamSpec, in the     *)
(* order of Params and with no other row, each showing name, type, yes or   *)
(* no for Required and, when Enum is not empty, its values, and then the    *)
(* example, literally.                                                      *)
C18_Level2Rendering ==
  EntryRendered =>
    LET text  == Rendered
        entry == registry[RenderedKey]
        n     == Len(entry.Params)
    IN  /\ Len(text) >= 13
        /\ text[1] = "## "
        /\ text[2] = entry.Action
        /\ text[4] = (IF entry.Resource # "" THEN entry.Resource ELSE entry.LinkType)
        /\ ManualKey(text[2], text[4]) = RenderedKey
        /\ text[6] = entry.Description
        /\ Cardinality(RowStarts(text)) = n
        /\ \A i \in 1..n :
             RowShows(text, RowStart(text, i), entry.Params[i],
                      IF i < n THEN RowStart(text, i + 1) ELSE Len(text) - 2)
        /\ n = 0 => Len(text) = 13
        /\ text[Len(text) - 1] = entry.Example
        /\ text[Len(text) - 2] = "\n### Example\n\n'''\n"
        /\ text[Len(text)] = "\n'''\n"

\* gitea_manual(action = "list", resource = "repository") rendered the entry,
\* whose parameter scope has enumerated values.
C18_Witness ==
  /\ ManualReturned
  /\ request.args = [action |-> Str("list"), resource |-> Str("repository"), type |-> Str("")]
  /\ result.errNil
  /\ " (values: " \in Range(result.payload)
  /\ Cardinality(RowStarts(result.payload)) = Len(registry["list:repository"].Params)

(* C19.  Registry immutability: after every sequence of calls of the        *)
(* dispatchers, of gitea_manual (with the sort it does for display) and of  *)
(* the functions of schema.go, the registry is what the package             *)
(* initialised it to: no entry added, removed or changed, Params included.  *)
C19_RegistryImmutable ==
  /\ registry = Manual
  /\ DOMAIN registry = { ManualLiteral[i].Key : i \in DOMAIN ManualLiteral }
  /\ \A i \in DOMAIN ManualLiteral :
       registry[ManualLiteral[i].Key].Params = ManualLiteral[i].Params

\* gitea_manual(action = "list") has sorted and cut for display, and
\* list:repository still has its full description.
C19_Witness ==
  /\ ManualReturned
  /\ ManAction = ActionList
  /\ SelectedLevel = 1
  /\ RowCount = 13
  /\ Len(registry["list:repository"].Description) > 60
  /\ registry = Manual

(* ---- C20 ---- *)

\* The call that just returned asks what the remembered call asked.
SameQuestionAgain ==
  /\ pc = "done"
  /\ memo # NoMemo
  /\ request.tool = memo.fn
  /\ request.args = memo.args

\* The elements of a returned list with the number of times each occurs.
Occurrences(list) == [ x \in Range(list) |-> Cardinality({ i \in DOMAIN list : list[i] = x }) ]

ExactlyOneOfPayloadAndError ==
  \/ ~result.payloadNil /\ result.errNil /\ result.err = <<>>
  \/ result.payloadNil /\ ~result.errNil /\ result.err # <<>> /\ result.payload = <<>>

\* The state of a request between its arrival and its answer.
AnswerShape ==
  /\ pc = "idle" => result = NoResult /\ upstreamCalls = 0
  /\ (IsDispatch /\ pc = "upstream") => result = NoResult /\ upstreamCalls = 1
  /\ (IsDispatch /\ pc = "done") =>
       /\ ExactlyOneOfPayloadAndError
       /\ upstreamCalls <= 1
       /\ pending.kind = "failed" => ~result.errNil /\ UpstreamError \in Range(result.err)
       /\ pending.kind = "succeeded" => result.errNil

\* A step of a request in flight: the client call it waits for returns and
\* the request is answered without another client call; an answered request
\* is not answered again.
AnswerStep ==
  /\ pc = "upstream" => pc' = "done" /\ upstreamCalls' = upstreamCalls /\ request' = request
  /\ pc = "done" => pc' = "idle" /\ result' = NoResult

(* C22.  Every dispatcher invocation ends with exactly one of a payload     *)
(* without error and an error without payload; a failure, of a local check  *)
(* or of the client call, is what the caller receives; a request makes at   *)
(* most one call of the forgejo client and the call is not repeated after   *)
(* it failed; an answered request gets no second answer.                    *)
C22_AnsweredOnceNoRetry == []AnswerShape /\ [][AnswerStep]_vars

\* The only client call of a get_gitea request failed and the failure is
\* the answer.
C22_Witness ==
  /\ request.tool = "get_gitea"
  /\ pc = "done"
  /\ pending.kind = "failed"
  /\ upstreamCalls = 1
  /\ result.payloadNil
  /\ result.err = <<pending.failPrefix, UpstreamError>>

(* ---- C23 ---- *)

\* The outcome of the two steps of a dispatcher before any resource
\* handler runs: the error branch it took, or the handler it selected.
StepOutcome(out) ==
  IF out.handler = "" THEN [branch |-> out.class, impl |-> "", handler |-> ""]
  ELSE [branch |-> "selected", impl |-> out.impl, handler |-> out.handler]

\* The same outcome as observed on the request in flight.
ObservedStepOutcome ==
  IF invoked = <<>> THEN [branch |-> result.class, impl |-> "", handler |-> ""]
  ELSE [branch |-> "selected", impl |-> invoked[1].impl, handler |-> invoked[1].handler]

\* The bag that holds the discriminator field of args and nothing else.
DiscriminatorOnly(verb, args) ==
  [ k \in DOMAIN args \cap {DiscriminatorField(verb)} |-> args[k] ]

(* C23.  The dispatcher validates the discriminator alone: a request has    *)
(* the same outcome of steps 1-2 (missing discriminator, unknown resource,  *)
(* or the handler selected) as the request that carries its discriminator   *)
(* field and no other parameter, under every iteration order of the         *)
(* registry; hence any two bags with the same discriminator value have the  *)
(* same outcome, whatever their other parameters are.                       *)
C23_DiscriminatorOnly ==
  (IsDispatch /\ pc \in {"upstream", "done"}) =>
    \A ord \in MapIterOrders :
      StepOutcome(Dispatcher(ReqVerb, DiscriminatorOnly(ReqVerb, request.args), ord)) = ObservedStepOutcome

\* delete_gitea for a label with an unusable id and no owner selected
\* deleteLabel, as the bare {resource: label} does.
C23_Witness ==
  /\ request.tool = "delete_gitea"
  /\ pc = "done"
  /\ ReqDisc = "label"
  /\ "owner" \notin DOMAIN request.args
  /\ "id" \in DOMAIN request.args /\ request.args["id"] = Num(0)
  /\ invoked = <<[impl |-> "DeleteImpl", handler |-> "deleteLabel"]>>
  /\ DiscriminatorOnly(ActionDelete, request.args) # request.args

(* ---- C24 ---- *)

\* The number of kinds each tool is stated to advertise.
AdvertisedCount(verb) ==
  CASE verb = ActionCreate -> 7
    [] verb = ActionGet    -> 4
    [] verb = ActionList   -> 13
    [] verb = ActionEdit   -> 8
    [] verb = ActionDelete -> 7
    [] verb = ActionLink   -> 3
    [] verb = ActionUnlink -> 3

\* The kinds under the keys "verb:kind" of the registry, and the keys.
KeyedKinds(verb) == { r \in KindNames : ManualKey(verb, r) \in DOMAIN registry }
KeysOfKinds == { ManualKey(verb, r) : verb \in Action, r \in KindNames }

\* The request in flight gives a discriminator that the schema of its tool
\* accepts.
SchemaAccepted == IsDispatch /\ pc # "idle" /\ ReqDisc \in Range(SchemaEnum(ReqVerb))

(* C24.  For each verb the kinds the registry holds equal the enum of the   *)
(* discriminator in the tool's schema and the kinds named in the tool's     *)
(* description, neither list repeating a kind: 7 for create, 4 for get, 13  *)
(* for list, 8 for edit, 7 for delete, 3 for link and 3 for unlink; and a   *)
(* request whose discriminator the schema accepts has a resource handler    *)
(* invoked: it ends neither as an unknown resource nor as not implemented.  *)
C24_AdvertisedKindsMatch ==
  /\ DOMAIN registry \subseteq KeysOfKinds
  /\ \A verb \in Action :
       /\ KeyedKinds(verb) = Range(SchemaEnum(verb))
       /\ KeyedKinds(verb) = Range(DescribedKinds(verb))
       /\ Cardinality(KeyedKinds(verb)) = AdvertisedCount(verb)
       /\ Len(SchemaEnum(verb)) = AdvertisedCount(verb)
       /\ Len(DescribedKinds(verb)) = AdvertisedCount(verb)
  /\ SchemaAccepted =>
       /\ Len(invoked) = 1
       /\ invoked[1].impl = ImplOf(ReqVerb)
       /\ result.class \notin {"MissingDiscriminator", "UnknownResource", "NotImplemented"}

\* list_gitea for issue_blocking, a kind the schema of list accepts and
\* that is a link type elsewhere, reached its handler.
C24_Witness ==
  /\ request.tool = "list_gitea"
  /\ ReqDisc = "issue_blocking"
  /\ SchemaAccepted
  /\ invoked = <<[impl |-> "ListImpl", handler |-> "listIssueBlocking"]>>
  /\ pc = "upstream"

(* ---- C25 ---- *)

\* A link_gitea or unlink_gitea request has been dispatched.
LinkDispatched == IsDispatch /\ ReqVerb \in {ActionLink, ActionUnlink} /\ pc # "idle"

\* gitea_manual answered a request about link or unlink.
LinkManualReturned == ManualReturned /\ ManAction \in {ActionLink, ActionUnlink}

(* C25.  ListLinkTypes is the list issue_label, issue_dependency,           *)
(* issue_blocking.  Its elements are the kinds registered for link and the  *)
(* kinds registered for unlink.  They are the types for which link_gitea    *)
(* and unlink_gitea invoke a handler, the valid types printed in the        *)
(* missing-type and unknown-type errors of the two dispatchers and of       *)
(* gitea_manual, and the rows, in that order, of the Level 1 listing of     *)
(* link and unlink.                                                         *)
C25_LinkTypes ==
  /\ ListLinkTypes = <<"issue_label", "issue_dependency", "issue_blocking">>
  /\ Range(ListLinkTypes) = KeyedKinds(ActionLink)
  /\ Range(ListLinkTypes) = KeyedKinds(ActionUnlink)
  /\ LinkDispatched =>
       /\ (invoked # <<>>) <=> (ReqDisc \in Range(ListLinkTypes))
       /\ (invoked = <<>>) =>
            /\ ReturnedError
            /\ ListedIn(result.err) = Range(ListLinkTypes)
            /\ ListedCount(result.err) = 3
  /\ (LinkManualReturned /\ ManDisc = "") =>
       /\ result.errNil
       /\ RowCount = 3
       /\ \A i \in 1..3 : RowKind(i) = ListLinkTypes[i]
  /\ (LinkManualReturned /\ ManDisc # "") =>
       /\ result.errNil <=> (ManDisc \in Range(ListLinkTypes))
       /\ ~result.errNil => ListedIn(result.err) = Range(ListLinkTypes) /\ ListedCount(result.err) = 3

\* unlink_gitea rejected the type issue, which is no link type, with the
\* three link types as the valid ones.
C25_Witness ==
  /\ request.tool = "unlink_gitea"
  /\ ReqDisc = "issue"
  /\ ReturnedError
  /\ invoked = <<>>
  /\ ListedIn(result.err) = {"issue_label", "issue_dependency", "issue_blocking"}

(* ---- C29 ---- *)

\* The entry stored under the key of (a, r) is the entry of that pair.
EntryMatchesKey(a, r) ==
  LET entry == registry[ManualKey(a, r)] IN
  /\ entry.Action = a
  /\ (entry.Resource # "") # (entry.LinkType # "")
  /\ (IF entry.Resource # "" THEN entry.Resource ELSE entry.LinkType) = r
  /\ (entry.LinkType # "") <=> (a \in {ActionLink, ActionUnlink})

\* The pair a rendered entry was looked up for.
RenderedVerb == IF request.tool = "gitea_manual" THEN ManAction ELSE request.args["action"].s
RenderedKind == IF request.tool = "gitea_manual" THEN ManDisc ELSE request.args["resourceOrType"].s

(* C29.  Every key of the registry is "a:r" for a verb a and a kind r, no   *)
(* key is written twice in the literal, and the entry under "a:r" has       *)
(* Action a, exactly one of Resource and LinkType non-empty and equal to r, *)
(* LinkType being the one exactly when a is link or unlink.  An entry that  *)
(* LookupManual finds is the entry of the pair asked for, and the header of *)
(* a rendered entry names the pair that was looked up.                      *)
C29_KeyConsistency ==
  /\ DOMAIN registry \subseteq KeysOfKinds
  /\ Cardinality(Range(LiteralKeys)) = Len(LiteralKeys)
  /\ \A a \in Action : \A r \in KeyedKinds(a) : EntryMatchesKey(a, r)
  /\ (Returned("LookupManual") /\ result.found) =>
       /\ result.entry.Action = request.args["action"].s
       /\ request.args["resourceOrType"].s \in {result.entry.Resource, result.entry.LinkType} \ {""}
  /\ EntryRendered =>
       /\ Len(Rendered) >= 5
       /\ SubSeq(Rendered, 1, 5) = <<"## ", RenderedVerb, " ", RenderedKind, "\n\n">>

\* gitea_manual(action = "unlink", type = "issue_blocking") returned the
\* entry of that pair, a link type, under the header "## unlink
\* issue_blocking".
C29_Witness ==
  /\ ManualReturned
  /\ ManAction = "unlink"
  /\ ManDisc = "issue_blocking"
  /\ result.errNil
  /\ SubSeq(result.payload, 1, 5) = <<"## ", "unlink", " ", "issue_blocking", "\n\n">>
  /\ registry["unlink:issue_blocking"].LinkType = "issue_blocking"
  /\ registry["unlink:issue_blocking"].Resource = ""

(* ---- C30 ---- *)

\* The valid set an unknown-kind error of gitea_manual prints for an action.
ManualValidSet(action) ==
  IF action \in {ActionLink, ActionUnlink} THEN Range(ListLinkTypes)
  ELSE { r \in Strings \ {""} : ManualKey(action, r) \in DOMAIN registry }

(* C30.  gitea_manual returns an error exactly when the request selects     *)
(* Level 2 and LookupManual does not find the pair; the error has no        *)
(* payload, names the value and the action and prints the valid kinds of    *)
(* the action.  Every other request, at Level 0, 1 or 2, gets text and no   *)
(* error; at Level 1 an action that is none of the seven verbs gets a       *)
(* listing without rows.                                                    *)
C30_ManualErrors ==
  ManualReturned =>
    /\ (~result.errNil) <=> (SelectedLevel = 2 /\ ~LookupManual(ManAction, ManDisc).ok)
    /\ result.errNil => ~result.payloadNil /\ result.payload # <<>>
    /\ ~result.errNil =>
         /\ result.payloadNil
         /\ Len(result.err) >= 7
         /\ result.err[1] = (IF ManAction \in {ActionLink, ActionUnlink}
                               THEN "unknown link type '" ELSE "unknown resource '")
         /\ result.err[2] = ManDisc
         /\ result.err[4] = ManAction
         /\ ListedIn(result.err) = ManualValidSet(ManAction)
         /\ ListedCount(result.err) = Cardinality(ManualValidSet(ManAction))
    /\ (SelectedLevel = 1 /\ ManAction \notin Action) => RowCount = 0

\* gitea_manual(action = "bogus", resource = "issue") returned the error
\* that issue is unknown for bogus, with an empty list of valid resources.
C30_Witness ==
  /\ ManualReturned
  /\ ManAction = "bogus"
  /\ ManDisc = "issue"
  /\ result.payloadNil
  /\ ~result.errNil
  /\ result.err = <<"unknown resource '", "issue", "' for action '", "bogus", "'. Valid resources: ", "[", "]">>

(* ---- C26 ---- *)

\* The parameters an entry marks Required with the type integer.
RequiredIntegers(entry) ==
  { entry.Params[i].Name :
      i \in { j \in DOMAIN entry.Params : entry.Params[j].Required /\ entry.Params[j].Type = "integer" } }

\* The value of the parameter is a number greater than 0.
Positive(args, name) == name \in DOMAIN args /\ args[name].t = "number" /\ args[name].n > 0

(* C26.  The Required integer parameters of the registry are index, id,     *)
(* attachment_id, label_id, dependency_index and blocked_index.  A handler  *)
(* reaches its client call only when each of its Required integers is a     *)
(* number greater than 0.  When one of them is missing, is not a number, is *)
(* 0 or is negative, the handler makes no client call and returns the text  *)
(* of FormatValidationError whose reason is "<name> is required" for a      *)
(* Required parameter the request does not supply usably: for that integer  *)
(* when every parameter the handler checks before it is usable.             *)
C26_PositiveIntegers ==
  /\ UNION { RequiredIntegers(registry[k]) : k \in DOMAIN registry }
       = {"index", "id", "attachment_id", "label_id", "dependency_index", "blocked_index"}
  /\ (Validated /\ pc # "idle") =>
       /\ upstreamCalls > 0 => \A p \in RequiredIntegers(ReqEntry) : Positive(request.args, p)
       /\ \A p \in RequiredIntegers(ReqEntry) :
            ~Positive(request.args, p) =>
              /\ ReturnedError
              /\ upstreamCalls = 0
              /\ Len(invoked) = 1
              /\ EnrichedWithEntry(result.err, ReqVerb, ReqDisc)
              /\ \E q \in RequiredNames(ReqEntry) :
                   /\ Unusable(request.args, ReqEntry, q)
                   /\ result.err[2] = q \o " is required" \o
                        (IF q = "labels" THEN " (array of label IDs)" ELSE "")
              /\ (\A q \in RequiredNames(ReqEntry) \ {p} : ~Unusable(request.args, ReqEntry, q))
                   => result.err[2] = p \o " is required"

\* delete_gitea for an issue attachment with attachment_id 0 and every
\* other parameter valid is rejected with "attachment_id is required".
C26_Witness ==
  /\ request.tool = "delete_gitea"
  /\ ReqDisc = "issue_attachment"
  /\ AsString(request.args, "owner").v = "v" /\ AsString(request.args, "repo").v = "v"
  /\ Positive(request.args, "index")
  /\ AsFloat64(request.args, "attachment_id") = [v |-> 0, ok |-> TRUE]
  /\ ReturnedError
  /\ upstreamCalls = 0
  /\ result.err[2] = "attachment_id is required"

(* ---- C27 ---- *)

\* The answer is a failure of a check of the dispatcher or of a handler.
LocalFailure ==
  /\ pc = "done"
  /\ result.class \in {"MissingDiscriminator", "UnknownResource", "NotImplemented", "HandlerValidation"}

(* C27.  A handler calls the forgejo client only after all its parameter    *)
(* checks passed: a request for which a client call was made has a          *)
(* registered discriminator, every Required parameter usable (present, of   *)
(* its type, numbers above 0, arrays non-empty), its timestamps, if given,  *)
(* well-formed, and for list repository a known scope with org when the     *)
(* scope is "org".  A request that fails any of these checks ends with an   *)
(* error and without a client call.                                         *)
C27_ValidateBeforeUpstream ==
  (IsDispatch /\ pc # "idle") =>
    /\ upstreamCalls > 0 => (Validated /\ ValidParams /\ Len(invoked) = 1 /\ ~LocalFailure)
    /\ ~(Validated /\ ValidParams) =>
         /\ ReturnedError
         /\ LocalFailure
         /\ upstreamCalls = 0
         /\ pending = NoPending
    /\ LocalFailure => upstreamCalls = 0 /\ ~(Validated /\ ValidParams)

\* edit_gitea for a milestone with a valid id and the due_date "tomorrow"
\* ended with the error of time.Parse and without a client call.
C27_Witness ==
  /\ request.tool = "edit_gitea"
  /\ ReqDisc = "milestone"
  /\ Positive(request.args, "id")
  /\ AsString(request.args, "due_date").v = BadTime
  /\ ReturnedError
  /\ upstreamCalls = 0
  /\ result.err = <<"invalid due_date format (expected RFC3339): ", TimeParseError(BadTime)>>

(* ---- C28 ---- *)

\* The positions of the Required parameters of an entry that the bag does
\* not supply usably, and the name of the first of them in the order of
\* Params ("" when there is none).
UnusablePositions(entry, args) ==
  { i \in DOMAIN entry.Params : entry.Params[i].Required /\ Unusable(args, entry, entry.Params[i].Name) }

FirstUnusable(entry, args) ==
  LET idx == UnusablePositions(entry, args) IN
  IF idx = {} THEN ""
  ELSE entry.Params[CHOOSE i \in idx : \A j \in idx : i <= j].Name

\* The reason a handler gives for a Required parameter it does not find.
RequiredReason(name) ==
  name \o " is required" \o
    (IF name = "labels" THEN " (array of label IDs)"
     ELSE IF name = "scope" THEN " ('my', 'org', or 'search')" ELSE "")

(* C28.  A handler checks owner, then repo, then its other       *)
(* Required parameters in the order of the registry entry, and reports the  *)
(* first check that fails and no other: the error of a request that leaves  *)
(* Required parameters unusable is the text of FormatValidationError with   *)
(* the reason "<name> is required" for the first of them in the order of    *)
(* Params.                                                                  *)
C28_FixedValidationOrder ==
  (Validated /\ pc # "idle" /\ FirstUnusable(ReqEntry, request.args) # "") =>
    /\ ReturnedError
    /\ upstreamCalls = 0
    /\ result.err =
         FormatValidationError(ReqVerb, ReqDisc, RequiredReason(FirstUnusable(ReqEntry, request.args)))

\* create_gitea for an issue without owner and without title reports
\* "owner is required" and nothing about title.
C28_Witness ==
  /\ request.tool = "create_gitea"
  /\ ReqDisc = "issue"
  /\ "owner" \notin DOMAIN request.args
  /\ "title" \notin DOMAIN request.args
  /\ ReturnedError
  /\ result.err[2] = "owner is required"
  /\ "title is required" \notin Range(result.err)

(* ---- C21 ---- *)

\* The fragments of a text with the number of times each occurs: two errors
\* that differ in the order of the printed kinds only have the same ones.
Fragments(text) == [ x \in Range(text) |-> Cardinality({ k \in DOMAIN text : text[k] = x }) ]

\* The outcome of a call and the outcome of the same call made alone are
\* the same error, or the same handler at the same client call.
SameOutcome(out, alone) ==
  /\ (out.kind = "error") <=> (alone.kind = "error")
  /\ out.class = alone.class
  /\ out.impl = alone.impl
  /\ out.handler = alone.handler
  /\ out.sub = alone.sub
  /\ out.call = alone.call
  /\ out.failPrefix = alone.failPrefix
  /\ Fragments(out.msg) = Fragments(alone.msg)

\* What the calls in flight hold: the local variable of a call is the
\* discriminator of its own arguments, its outcome is the outcome of the
\* call made alone, and the registry is the one the server started with.
Independent ==
  /\ registry = Manual
  /\ \A i \in Slots :
       /\ flight[i].pc \in {"lookup", "switch", "upstream"} =>
            LocalResource(i) = AsString(flight[i].args, DiscriminatorField(flight[i].verb)).v
       /\ flight[i].pc \in {"upstream", "done"} => SameOutcome(flight[i].out, flight[i].alone)

\* A step is the step of one call: it leaves every other call and the
\* registry as they were.
OneCallSteps ==
  /\ registry' = registry
  /\ \A i, j \in Slots : (flight'[i] # flight[i] /\ flight'[j] # flight[j]) => i = j

(* C21.  Calls of the dispatchers running at the same time, their steps     *)
(* interleaved in any order, do not affect one another: each call ends with *)
(* the error, or with the handler invoked on the arguments of the call,     *)
(* that it ends with when it runs alone; a call reads its own arguments and *)
(* local variables and the registry, which no call writes; a step of one    *)
(* call changes nothing of another call.                                    *)
C21_RequestIndependence == []Independent /\ [][OneCallSteps]_vars

\* While createIssue of one call waits for the forgejo client, another call
\* has passed its lookup for the kind label and is at its switch.
C21_Witness ==
  /\ flight[1].pc = "upstream"
  /\ flight[1].out.handler = "createIssue"
  /\ flight[2].pc = "switch"
  /\ flight[2].resource = "label"
  /\ flight[1].resource = "issue"

=============================================================================
